---- MODULE Spec2Model ----
(***************************************************************************)
(* ShortsAI: the segment selector (README "Segment Selection Algorithm"),  *)
(* score fusion, the job pipeline that drives a video through              *)
(* queued -> downloading -> analyzing -> processing -> completed / failed, *)
(* status reads of the job record, and the frontend App with its server.   *)
(*                                                                         *)
(* Times are whole seconds.  An engagement curve is a sequence of fused    *)
(* scores, curve[i] being the score of the second [i-1, i).                *)
(***************************************************************************)
EXTENDS Integers, Sequences, FiniteSets, TLC

VARIABLES
    \* ---- the selector, run on its own (SpecSelect, SpecScenarioA)
    curve,          \* the engagement curve handed to select
    clip_duration,  \* requested clip length, seconds
    clip_count,     \* requested number of clips
    min_gap,        \* seconds between clips
    sel_pc,         \* "start" | "loop" | "done": position in select_best_segments
    rest,           \* the part of sorted_by_score the for loop has not visited
    selected,       \* the loop's accumulator
    result,         \* what select returned (<<>> until sel_pc = "done")
    \* ---- one job and the worker that drives it (Spec)
    media_duration, \* length of the source video, seconds
    job_duration,   \* the job's requested clip duration
    job_count,      \* the job's requested clip count
    stage,          \* the job record: status
    progress,       \* the job record: progress, percent
    error,          \* the job record: "null", or the kind of the terminal error
    segments,       \* the job record: the selected segments and their render state
    fetched,        \* chunks of the source the media fetcher has reported
    analyzer,       \* per analyzer: "idle" | "running" | "ok" | "empty" | "unavailable"
    trail,          \* history: the stages the job has been in, in order
    \* ---- score fusion, run on its own for one timestamp (SpecFuse)
    fuse_usable,    \* the analyzers that produced scores in the job run
    fuse_present,   \* the usable analyzers that have a score at the timestamp
    fuse_scores,    \* the analyzers' normalized scores at the timestamp
    fuse_weights,   \* the weight table resolved for the run, percent
    fuse_total,     \* the total the weighted sum is taken over
    fuse_out,       \* the fused score of the timestamp (-1 until computed)
    fuse_pc,        \* "idle" | "start" | "resolved" | "done"
    \* ---- a status read of the job's record (SpecRead)
    read_pc,        \* "off" | "idle" | "reading"
    read_seen,      \* the copy of the record the read in progress took
    snapshot,       \* the record the last read returned
    read_raced,     \* history: the worker wrote during the last read
    \* ---- the frontend App and the server it talks to (SpecApp)
    url,            \* App state: the URL typed into the form
    formDuration,   \* App state `duration`: the clip duration selected
    clipCount,      \* App state: the clip count selected
    jobId,          \* App state: 0 for null
    status,         \* App state: the last status record, NullStatus for null
    isProcessing,   \* App state
    clips,          \* App state: the indexes of the clips shown
    selectedClip,   \* App state: 0 for null
    appError,       \* App state `error`: "null" or the message
    submit_pc,      \* per run of handleSubmit under way, its processVideo
                    \*   call: "none" | "sent" | "ok" | "error"
    submit_req,     \* the body of its request
    submit_reply,   \* the jobId (submit_pc = "ok") of its response
    submit_msg,     \* the message of the rejection (submit_pc = "error")
    polls,          \* per jobId, the pollJobStatus chain: its position
                    \*   "none" | "request" | "response" | "failed" | "delay"
                    \*   | "ended", and the response it holds
    api_req,        \* the request of another client of the API, in flight
    server_jobs,    \* the server's job records, by jobId
    last_verdict,   \* the server's verdict on the last submission:
                    \*   "none" | "accepted" | "ValidationError" | "RateLimited"
    \* ---- the download buttons of the results view (SpecDownload)
    dl_clips,       \* prop `clips`: the indexes of the clips shown
    button_status,  \* per clip, DownloadButton state `status`:
                    \*   "idle" | "downloading" | "success" | "error"
    button_timers,  \* per clip, the reset timers of its button that are pending
    micro,          \* the continuation waiting behind `await downloadClip(..)`:
                    \*   "none" | "button" | "all"
    micro_clip,     \* the clip of the button whose continuation waits (0: none)
    micro_ok,       \* the awaited downloadClip call returned (FALSE: it threw)
    downloading,    \* DownloadAllButton state
    all_progress,   \* DownloadAllButton state `progress`, as <<numerator,
                    \*   denominator>> of the percentage
    all_i,          \* handleDownloadAll: the loop variable i
    all_pc,         \* handleDownloadAll: "idle" | "call" | "pause"
    all_log,        \* history: the clips the run has handed to downloadClip
    \* ---- deletion of the job (SpecCancel)
    cancel,         \* "none" | "requested" | "observed": the cancellation signal
    record          \* the job's record is in the Job Store

selVars == <<curve, clip_duration, clip_count, min_gap, sel_pc, rest, selected, result>>

jobVars == <<media_duration, job_duration, job_count, stage, progress,
             error, segments, fetched, analyzer, trail>>

fuseVars == <<fuse_usable, fuse_present, fuse_scores, fuse_weights,
              fuse_total, fuse_out, fuse_pc>>

readVars == <<read_pc, read_seen, snapshot, read_raced>>

appState == <<url, formDuration, clipCount, jobId, status, isProcessing, clips,
              selectedClip, appError>>
submitVars == <<submit_pc, submit_req, submit_reply, submit_msg>>
serverVars == <<api_req, server_jobs, last_verdict>>

appVars == <<appState, submitVars, polls, serverVars>>

buttonVars == <<button_status, button_timers>>
microVars == <<micro, micro_clip, micro_ok>>
allVars == <<downloading, all_progress, all_i, all_pc, all_log>>

dlVars == <<dl_clips, buttonVars, microVars, allVars>>

cancelVars == <<cancel, record>>

vars == <<selVars, jobVars, fuseVars, readVars, appVars, dlVars, cancelVars>>

\* What the steps of one part leave alone.
notSel == <<jobVars, fuseVars, readVars, appVars, dlVars, cancelVars>>
notJob == <<selVars, fuseVars, readVars, appVars, dlVars, cancelVars>>
notFuse == <<selVars, jobVars, readVars, appVars, dlVars, cancelVars>>
notRead == <<selVars, jobVars, fuseVars, appVars, dlVars, cancelVars>>
notApp == <<selVars, jobVars, fuseVars, readVars, dlVars, cancelVars>>
notDl == <<selVars, jobVars, fuseVars, readVars, appVars, cancelVars>>
notJobCancel == <<selVars, fuseVars, readVars, appVars, dlVars>>

(***************************************************************************)
(* Bounds of the exhaustive selector runs.                                 *)
(***************************************************************************)
MaxLen == 7
MaxScore == 1
MaxDuration == 3
MaxCount == 3

(***************************************************************************)
(* Bounds of the job runs: the length of the long source video, and the    *)
(* number of chunks the media fetcher reports a download in.               *)
(***************************************************************************)
LongMedia == 150
Chunks == 2

(***************************************************************************)
(* Bound of the fusion runs: analyzer scores are taken from the            *)
(* ScoreLevels + 1 evenly spaced values of 0..100.                         *)
(***************************************************************************)
ScoreLevels == 2

(***************************************************************************)
(* Bounds of the App runs: the jobs the server accepts, and the clips of   *)
(* a completed job.                                                        *)
(***************************************************************************)
MaxJobs == 2
MaxClips == 2
\* The processVideo calls of handleSubmit that are in flight at once.
MaxPending == 2
MaxTimers == 2

(***************************************************************************)
(* Helpers.                                                                *)
(***************************************************************************)
Abs(x) == IF x < 0 THEN -x ELSE x

MaxOf(S) == CHOOSE m \in S : \A x \in S : x <= m

\* All sequences over S of length 0..n.
SeqsUpTo(S, n) == UNION {[1..k -> S] : k \in 0..n}

(***************************************************************************)
(* Candidate windows: a window of `duration` seconds slid over the curve   *)
(* with a 1-second stride; only windows that fit in the curve are          *)
(* candidates.  A candidate's score is the peak fused score in its span.   *)
(***************************************************************************)
window_score(c, start, duration) ==
    MaxOf({c[i] : i \in (start + 1)..(start + duration)})

candidate_segments(c, duration) ==
    LET n == IF Len(c) >= duration THEN Len(c) - duration + 1 ELSE 0
    IN  [k \in 1..n |->
            [start_time |-> k - 1,
             end_time   |-> k - 1 + duration,
             score      |-> window_score(c, k - 1, duration)]]

(***************************************************************************)
(* sorted_by_score: descending score, equal scores in start-time order.    *)
(* Candidates have distinct start times, so comes_before is a total order  *)
(* and a candidate's rank is one more than the number ranked before it.    *)
(***************************************************************************)
ComesBeforeLatestFirst(a, b) ==
    \/ a.score > b.score
    \/ (a.score = b.score /\ a.start_time > b.start_time)

comes_before(a, b) ==
    \/ a.score > b.score
    \/ (a.score = b.score /\ a.start_time < b.start_time)

sorted_by_score(segs) ==
    LET n == Len(segs)
        rank == SubSeq([i \in 1..n |->
                           1 + Cardinality({j \in 1..n : comes_before(segs[j], segs[i])})],
                       1, n)
    IN  [k \in 1..n |-> segs[CHOOSE i \in 1..n : rank[i] = k]]

(***************************************************************************)
(* overlaps_with_selected: the candidate starts less than duration+min_gap *)
(* away from an already accepted one.                                      *)
(***************************************************************************)
overlaps_with_selected(segment, sel, duration, gap) ==
    \E i \in 1..Len(sel) :
        Abs(segment.start_time - sel[i].start_time) < duration + gap

(***************************************************************************)
(* The for loop of select_best_segments.                                   *)
(***************************************************************************)
\* `if len(selected) >= count: break`, and running out of candidates.
LoopBreakEarly(sel, remaining, count) ==
    remaining = <<>> \/ Len(sel) >= count - 1

loop_ends(sel, remaining, count) ==
    remaining = <<>> \/ Len(sel) >= count

\* `if not overlaps_with_selected(...): selected.append(segment)`
LoopBodyNoOverlapCheck(segment, sel, duration, gap) == Append(sel, segment)

LoopBodyRejectsTouching(segment, sel, duration, gap) ==
    IF \E i \in 1..Len(sel) :
           Abs(segment.start_time - sel[i].start_time) <= duration + gap
    THEN sel
    ELSE Append(sel, segment)

loop_body(segment, sel, duration, gap) ==
    IF ~ overlaps_with_selected(segment, sel, duration, gap)
    THEN Append(sel, segment)
    ELSE sel

\* The whole loop: iterations that reject their candidate change nothing, so
\* the pass moves from one accepted candidate to the next one in rank order
\* that does not overlap.
RECURSIVE greedy_pass(_, _, _, _, _, _)
greedy_pass(ranked, from, sel, duration, count, gap) ==
    LET free == {k \in from..Len(ranked) :
                    ~ overlaps_with_selected(ranked[k], sel, duration, gap)}
    IN  IF Len(sel) >= count \/ free = {} THEN sel
        ELSE LET k == CHOOSE m \in free : \A x \in free : m <= x
             IN  greedy_pass(ranked, k + 1,
                             loop_body(ranked[k], sel, duration, gap),
                             duration, count, gap)

(***************************************************************************)
(* sorted_by_timestamp: ascending start time.                              *)
(***************************************************************************)
RECURSIVE insert_by_timestamp(_, _)
insert_by_timestamp(x, s) ==
    IF s = <<>> THEN <<x>>
    ELSE IF Head(s).start_time <= x.start_time
         THEN <<Head(s)>> \o insert_by_timestamp(x, Tail(s))
         ELSE <<x>> \o s

\* The segments in the order the greedy pass accepted them.
KeepAcceptanceOrder(segs) == segs

RECURSIVE sorted_by_timestamp(_)
sorted_by_timestamp(segs) ==
    IF segs = <<>> THEN <<>>
    ELSE insert_by_timestamp(Head(segs), sorted_by_timestamp(Tail(segs)))

\* select(curve, clip_duration, clip_count, min_gap), as one function.
select_best_segments(c, duration, count, gap) ==
    sorted_by_timestamp(
        greedy_pass(sorted_by_score(candidate_segments(c, duration)),
                    1, <<>>, duration, count, gap))

(***************************************************************************)
(* Score fusion.  Weights are integer percents.                            *)
(***************************************************************************)
Analyzers == {"semantic", "audio", "motion", "scene", "faces"}

DefaultWeightsHeavyFaces ==
    [semantic |-> 30, audio |-> 20, motion |-> 20, scene |-> 15, faces |-> 25]

DefaultWeightsSwapped ==
    [semantic |-> 20, audio |-> 30, motion |-> 20, scene |-> 15, faces |-> 15]

DEFAULT_WEIGHTS ==
    [semantic |-> 30, audio |-> 20, motion |-> 20, scene |-> 15, faces |-> 15]

FallbackWeightsEven ==
    [semantic |-> 0, audio |-> 25, motion |-> 25, scene |-> 25, faces |-> 25]

FallbackWeightsHeavyScene ==
    [semantic |-> 0, audio |-> 30, motion |-> 25, scene |-> 25, faces |-> 25]

FALLBACK_WEIGHTS ==
    [semantic |-> 0, audio |-> 30, motion |-> 25, scene |-> 20, faces |-> 25]

RECURSIVE SumOver(_, _)
SumOver(S, f) ==
    IF S = {} THEN 0
    ELSE LET a == CHOOSE x \in S : TRUE IN f[a] + SumOver(S \ {a}, f)

\* The weights fuse uses when `usable` are the analyzers that produced scores:
\* the default table, the four-signal table when only the semantic analyzer
\* is missing, and otherwise the default weights of the usable analyzers,
\* rescaled by their sum (weight_total).  The two documented tables are used
\* as they are written (Combined = Ollama x 0.30 + Audio x 0.20 + ...): their
\* total is 100 percent.
weight_table(usable) ==
    IF usable = Analyzers \ {"semantic"} THEN FALLBACK_WEIGHTS
    ELSE [a \in Analyzers |-> IF a \in usable THEN DEFAULT_WEIGHTS[a] ELSE 0]

weight_total(usable) ==
    IF usable \in {Analyzers, Analyzers \ {"semantic"}} THEN 100
    ELSE SumOver(usable, weight_table(usable))

\* Fused score of one timestamp: the weighted sum of the scores present at
\* that timestamp, over the total weight of the run.
fused_sample(scores, present, usable) ==
    SumOver(usable \cap present,
            [a \in Analyzers |-> weight_table(usable)[a] * scores[a]])
        \div weight_total(usable)

\* The same with a score of every usable analyzer.
fused_score(scores, usable) == fused_sample(scores, usable, usable)

\* What the analyzers see in the source: each analyzer scores 100 in one
\* second of its own and 0 elsewhere.
AnalyzerPeak ==
    [semantic |-> 60, audio |-> 70, motion |-> 80, scene |-> 90, faces |-> 100]

analyzer_score(a, t) == IF t = AnalyzerPeak[a] THEN 100 ELSE 0

\* fuse: the engagement curve of a source, one fused score per second.
fuse(duration, usable) ==
    [i \in 1..duration |->
        fused_score([a \in Analyzers |-> analyzer_score(a, i - 1)], usable)]

(***************************************************************************)
(* The job pipeline.                                                       *)
(***************************************************************************)
DURATION_OPTIONS == {30, 60, 90, 120, 180}
CLIP_COUNT_OPTIONS == {5, 10, 15}
MIN_GAP == 2

\* The stages a job is still being worked on in.
IsLoadingWithCompleted(s) ==
    s \in {"queued", "downloading", "analyzing", "processing", "completed"}

IsLoadingWithFailed(s) ==
    s \in {"queued", "downloading", "analyzing", "processing", "failed"}

isLoading(s) == s \in {"queued", "downloading", "analyzing", "processing"}

Terminal == {"completed", "failed"}

\* The stage that follows s in the pipeline.
NextStageSkipping(s) ==
    CASE s = "queued"      -> "downloading"
      [] s = "downloading" -> "processing"
      [] s = "analyzing"   -> "processing"
      [] s = "processing"  -> "completed"
      [] OTHER             -> s

next_stage(s) ==
    CASE s = "queued"      -> "downloading"
      [] s = "downloading" -> "analyzing"
      [] s = "analyzing"   -> "processing"
      [] s = "processing"  -> "completed"
      [] OTHER             -> s

\* The progress range of each stage: [lo, hi].
StageProgressLowAnalyze(s) ==
    CASE s = "queued"      -> <<0, 0>>
      [] s = "downloading" -> <<10, 25>>
      [] s = "analyzing"   -> <<20, 60>>
      [] s = "processing"  -> <<60, 100>>
      [] s = "completed"   -> <<100, 100>>
      [] OTHER             -> <<0, 100>>

StageProgressHighDownload(s) ==
    CASE s = "queued"      -> <<0, 0>>
      [] s = "downloading" -> <<10, 40>>
      [] s = "analyzing"   -> <<30, 60>>
      [] s = "processing"  -> <<60, 100>>
      [] s = "completed"   -> <<100, 100>>
      [] OTHER             -> <<0, 100>>

stage_progress(s) ==
    CASE s = "queued"      -> <<0, 0>>
      [] s = "downloading" -> <<10, 25>>
      [] s = "analyzing"   -> <<30, 60>>
      [] s = "processing"  -> <<60, 100>>
      [] s = "completed"   -> <<100, 100>>
      [] OTHER             -> <<0, 100>>

\* Progress within a stage, proportional to done / total.
stage_fraction(s, done, total) ==
    LET lo == stage_progress(s)[1]
        hi == stage_progress(s)[2]
        p  == lo + ((hi - lo) * done) \div total
    IN  IF p > hi THEN hi ELSE p

\* "No engaging segments found".
NeverNoSegments(segs) == FALSE

no_engaging_segments(segs) == segs = <<>>

\* The analyzers whose scores fuse takes.
UsableNeedsSemantic ==
    IF analyzer["semantic"] = "ok"
    THEN {a \in Analyzers : analyzer[a] = "ok"}
    ELSE {}

Usable == {a \in Analyzers : analyzer[a] = "ok"}

\* The analyzers the join is no longer waiting for.
ReportedOrRunning ==
    {a \in Analyzers :
        analyzer[a] \in {"ok", "empty", "unavailable", "running"}}

Reported == {a \in Analyzers : analyzer[a] \in {"ok", "empty", "unavailable"}}

Rendered(segs, state) == {i \in 1..Len(segs) : segs[i].render = state}

\* Some render of the job has not returned yet.
RendersPendingLastOnly(segs) == segs[Len(segs)].render = "pending"

renders_pending(segs) == Rendered(segs, "pending") # {}

\* The outcome of Processing once no render is pending.
RenderOutcomeAlwaysCompleted(segs) == "completed"

render_outcome(segs) ==
    IF Rendered(segs, "ok") = {} THEN "failed" ELSE "completed"

\* The job's segments as select returned them, indexed in chronological order.
job_segments(sel) ==
    [i \in 1..Len(sel) |->
        [index      |-> i,
         start_time |-> sel[i].start_time,
         end_time   |-> sel[i].end_time,
         score      |-> sel[i].score,
         render     |-> "pending"]]

\* The worker picks the job up.
StartDownload ==
    /\ stage = "queued"
    /\ stage' = next_stage(stage)
    /\ progress' = stage_progress("downloading")[1]
    /\ trail' = Append(trail, stage')
    /\ UNCHANGED <<media_duration, job_duration, job_count, error,
                   segments, fetched, analyzer>>
    /\ UNCHANGED notJob

\* The media fetcher reports that k chunks are there (k = Chunks: all of it).
FetchReport ==
    /\ stage = "downloading"
    /\ \E k \in (fetched + 1)..Chunks :
        /\ fetched' = k
        /\ progress' = stage_fraction("downloading", k, Chunks)
    /\ UNCHANGED <<media_duration, job_duration, job_count, stage,
                   error, segments, analyzer, trail>>
    /\ UNCHANGED notJob

\* The fetch failed: DownloadError.
FetchFail ==
    /\ stage = "downloading"
    /\ fetched < Chunks
    /\ stage' = "failed"
    /\ error' = "DownloadError"
    /\ trail' = Append(trail, "failed")
    /\ UNCHANGED <<media_duration, job_duration, job_count, progress,
                   segments, fetched, analyzer>>
    /\ UNCHANGED notJob

\* The download is complete: the five analyzers are started.
StartAnalyzing ==
    /\ stage = "downloading"
    /\ fetched = Chunks
    /\ stage' = next_stage(stage)
    /\ progress' = stage_progress("analyzing")[1]
    /\ analyzer' = [a \in Analyzers |-> "running"]
    /\ trail' = Append(trail, stage')
    /\ UNCHANGED <<media_duration, job_duration, job_count, error,
                   segments, fetched>>
    /\ UNCHANGED notJob

\* One analyzer reports: scores, no scores, or unavailable (error, timeout).
AnalyzerReport ==
    /\ stage = "analyzing"
    /\ \E a \in Analyzers, outcome \in {"ok", "empty", "unavailable"} :
        /\ analyzer[a] = "running"
        /\ analyzer' = [analyzer EXCEPT ![a] = outcome]
        /\ progress' = stage_fraction("analyzing",
                                      Cardinality(Reported) + 1,
                                      Cardinality(Analyzers))
    /\ UNCHANGED <<media_duration, job_duration, job_count, stage,
                   error, segments, fetched, trail>>
    /\ UNCHANGED notJob

\* The join: every analyzer has reported.  With no usable signal the job
\* fails; otherwise fuse and select run, and the job fails when select found
\* nothing and enters processing otherwise.
Join ==
    /\ stage = "analyzing"
    /\ Reported = Analyzers
    /\ IF Usable = {}
       THEN /\ stage' = "failed"
            /\ error' = "AnalysisError"
            /\ UNCHANGED <<progress, segments>>
       ELSE LET sel == select_best_segments(
                           fuse(media_duration, Usable),
                           job_duration, job_count, MIN_GAP)
            IN  IF no_engaging_segments(sel)
                THEN /\ stage' = "failed"
                     /\ error' = "No engaging segments found"
                     /\ UNCHANGED <<progress, segments>>
                ELSE /\ stage' = next_stage(stage)
                     /\ progress' = stage_progress("processing")[1]
                     /\ segments' = job_segments(sel)
                     /\ UNCHANGED error
    /\ trail' = Append(trail, stage')
    /\ UNCHANGED <<media_duration, job_duration, job_count, fetched,
                   analyzer>>
    /\ UNCHANGED notJob

\* The renderer returns for one segment, in any order.  The outcome is
\* recorded on the segment; when it was the last pending render the job ends.
RenderResult ==
    /\ stage = "processing"
    /\ \E i \in Rendered(segments, "pending"), outcome \in {"ok", "failed"} :
        LET segs == [segments EXCEPT ![i].render = outcome]
            done == Len(segs) - Cardinality(Rendered(segs, "pending"))
        IN  /\ segments' = segs
            /\ IF renders_pending(segs)
               THEN /\ progress' = stage_fraction("processing", done, job_count)
                    /\ UNCHANGED <<stage, error, trail>>
               ELSE IF render_outcome(segs) = "completed"
                    THEN /\ stage' = next_stage(stage)
                         /\ progress' = stage_progress("completed")[1]
                         /\ trail' = Append(trail, stage')
                         /\ UNCHANGED error
                    ELSE /\ stage' = "failed"
                         /\ error' = "RenderError"
                         /\ trail' = Append(trail, "failed")
                         /\ UNCHANGED progress
    /\ UNCHANGED <<media_duration, job_duration, job_count, fetched,
                   analyzer>>
    /\ UNCHANGED notJob

\* Resource exhaustion or a worker crash, in any stage the job is worked on.
SystemFail ==
    /\ isLoading(stage)
    /\ stage' = "failed"
    /\ error' = "SystemError"
    /\ trail' = Append(trail, "failed")
    /\ UNCHANGED <<media_duration, job_duration, job_count, progress,
                   segments, fetched, analyzer>>
    /\ UNCHANGED notJob


\* A job as submission creates it.
InitJob ==
    /\ media_duration \in {20, LongMedia}
    /\ job_duration \in DURATION_OPTIONS
    /\ job_count \in CLIP_COUNT_OPTIONS
    /\ stage = "queued"
    /\ progress = 0
    /\ error = "null"
    /\ segments = <<>>
    /\ fetched = 0
    /\ analyzer = [a \in Analyzers |-> "idle"]
    /\ trail = <<"queued">>

\* No deletion of the job has been asked for.
NoCancel == cancel = "none" /\ record = TRUE

\* No job: the selector runs on its own.
NoJob ==
    /\ media_duration = 0
    /\ job_duration = 0
    /\ job_count = 0
    /\ stage = "queued"
    /\ progress = 0
    /\ error = "null"
    /\ segments = <<>>
    /\ fetched = 0
    /\ analyzer = [a \in Analyzers |-> "idle"]
    /\ trail = <<"queued">>

\* No selector run of its own: the job calls select itself.
NoSelect ==
    /\ curve = <<>>
    /\ clip_duration = 0
    /\ clip_count = 0
    /\ min_gap = 0
    /\ sel_pc = "idle"
    /\ rest = <<>>
    /\ selected = <<>>
    /\ result = <<>>

(***************************************************************************)
(* The frontend (App.jsx, lib/utils.js, lib/api.js) and the server's       *)
(* submission and status endpoints.                                        *)
(*                                                                         *)
(* A URL is the text lead + scheme + www + host + path followed by `id`    *)
(* characters of [a-zA-Z0-9_-] and then by a character outside that class  *)
(* or the end of the text.                                                 *)
(***************************************************************************)
Url(lead, scheme, www, host, path, id) ==
    [lead |-> lead, scheme |-> scheme, www |-> www, host |-> host,
     path |-> path, id |-> id]

EmptyUrl == Url("", "", "", "", "", 0)

\* The four patterns of isValidYouTubeUrl: the host, the path before the
\* video id, and whether the pattern has the optional (www\.)?.
UrlPatterns ==
    { [host |-> "youtube.com", path |-> "/watch?v=", www |-> TRUE],
      [host |-> "youtube.com", path |-> "/embed/",   www |-> TRUE],
      [host |-> "youtu.be",    path |-> "/",         www |-> FALSE],
      [host |-> "youtube.com", path |-> "/shorts/",  www |-> TRUE] }

\* pattern.test(url): ^(https?:\/\/)?(www\.)?host path [a-zA-Z0-9_-]{11},
\* anchored at the start of the text and open at its end.
pattern_test(p, u) ==
    /\ u.lead = ""
    /\ u.scheme \in {"", "http://", "https://"}
    /\ (u.www = "" \/ (p.www /\ u.www = "www."))
    /\ u.host = p.host
    /\ u.path = p.path
    /\ u.id >= 11

isValidYouTubeUrl(u) ==
    IF u = EmptyUrl THEN FALSE
    ELSE \E p \in UrlPatterns : pattern_test(p, u)

\* The URLs the user types: two that match a pattern (the second with a
\* twelfth character after the id), and three that match none (www. before
\* youtu.be, an id of 10 characters, a leading blank).
UrlSamples ==
    { EmptyUrl,
      Url("", "https://", "www.", "youtube.com", "/watch?v=", 11),
      Url("", "", "", "youtube.com", "/embed/", 12),
      Url("", "https://", "www.", "youtu.be", "/", 11),
      Url("", "https://", "", "youtube.com", "/shorts/", 10),
      Url(" ", "https://", "www.", "youtube.com", "/watch?v=", 11) }

\* The selectors' initial values: useState(60), useState(5).
DEFAULT_DURATION == 60
DEFAULT_CLIP_COUNT == 5

\* What another client of the API sends: a submission like the form's, and
\* what the form cannot send: a URL of another site, a duration and a clip
\* count that are not among the options.
ApiRequests ==
    { [url |-> Url("", "https://", "www.", "youtube.com", "/watch?v=", 11),
       duration |-> DEFAULT_DURATION, clip_count |-> DEFAULT_CLIP_COUNT],
      [url |-> Url("", "https://", "", "vimeo.com", "/", 11),
       duration |-> DEFAULT_DURATION, clip_count |-> DEFAULT_CLIP_COUNT],
      [url |-> Url("", "https://", "www.", "youtube.com", "/watch?v=", 11),
       duration |-> 45, clip_count |-> DEFAULT_CLIP_COUNT],
      [url |-> Url("", "https://", "www.", "youtube.com", "/watch?v=", 11),
       duration |-> DEFAULT_DURATION, clip_count |-> 20] }

NullStatus == [status |-> "null", progress |-> 0, clips |-> <<>>, error |-> "null"]

NoRequest == [url |-> EmptyUrl, duration |-> 0, clip_count |-> 0]

NoPoll == [pc |-> "none", reply |-> NullStatus]

\* The runs of handleSubmit that can be under way at once: each run awaits
\* its own processVideo call.
Slots == 1..MaxPending

\* const showResults = clips.length > 0 && !isProcessing
showResults == Len(clips) > 0 /\ ~ isProcessing

\* if (!isValidYouTubeUrl(url)) in handleSubmit.
UrlRejectedOnlyEmpty(u) == u = EmptyUrl

url_rejected(u) == ~ isValidYouTubeUrl(u)

\* The server's validation of a submission.
validate_request(req) ==
    /\ isValidYouTubeUrl(req.url)
    /\ req.duration \in DURATION_OPTIONS
    /\ req.clip_count \in CLIP_COUNT_OPTIONS

\* The server's verdict on a submission, with `jobs` the records it holds.
process_video(req, jobs) ==
    IF ~ validate_request(req) THEN "ValidationError"
    ELSE IF Len(jobs) >= MaxJobs THEN "RateLimited"
    ELSE "accepted"

\* The record of a job created for req.
new_job(req) ==
    [status |-> "queued", progress |-> 0, clips |-> <<>>, error |-> "null"]

\* The response of GET /api/status/{job_id}.
status_response(job) ==
    [status |-> job.status, progress |-> job.progress, clips |-> job.clips,
     error |-> job.error]

\* The user edits the URL (the input is disabled while processing).
SetUrl ==
    /\ ~ isProcessing
    /\ ~ showResults
    /\ \E u \in UrlSamples : url' = u
    /\ UNCHANGED <<formDuration, clipCount, jobId, status, isProcessing, clips,
                   selectedClip, appError>>
    /\ UNCHANGED <<submitVars, polls, serverVars>>
    /\ UNCHANGED notApp

\* The user picks a clip duration: DurationSelector's onChange = setDuration
\* (the options are disabled while processing).
SetDuration ==
    /\ ~ isProcessing
    /\ ~ showResults
    /\ \E d \in DURATION_OPTIONS : formDuration' = d
    /\ UNCHANGED <<url, clipCount, jobId, status, isProcessing, clips,
                   selectedClip, appError>>
    /\ UNCHANGED <<submitVars, polls, serverVars>>
    /\ UNCHANGED notApp

\* The user picks a clip count: ClipCountSelector's onChange = setClipCount.
SetClipCount ==
    /\ ~ isProcessing
    /\ ~ showResults
    /\ \E c \in CLIP_COUNT_OPTIONS : clipCount' = c
    /\ UNCHANGED <<url, formDuration, jobId, status, isProcessing, clips,
                   selectedClip, appError>>
    /\ UNCHANGED <<submitVars, polls, serverVars>>
    /\ UNCHANGED notApp

\* The user clicks a preview in the results view: VideoPreview's onSelect =
\* setSelectedClip.
SetSelectedClip ==
    /\ showResults
    /\ \E i \in 1..Len(clips) : selectedClip' = clips[i]
    /\ UNCHANGED <<url, formDuration, clipCount, jobId, status, isProcessing,
                   clips, appError>>
    /\ UNCHANGED <<submitVars, polls, serverVars>>
    /\ UNCHANGED notApp

\* The form is on screen with its submit button: the results view replaces
\* the form, and ProcessingStatus replaces the button while processing.
SubmitShownWhileProcessing == ~ showResults

submit_shown == ~ showResults /\ ~ isProcessing

\* handleSubmit, up to `await processVideo(url, duration, clipCount)`.  The
\* run takes the first slot that is free; with MaxPending calls in flight no
\* further call is started.
run_handleSubmit ==
    /\ IF url_rejected(url)
       THEN /\ appError' = "Please enter a valid YouTube URL"
            /\ UNCHANGED <<isProcessing, clips, status, submitVars>>
       ELSE /\ appError' = "null"
            /\ isProcessing' = TRUE
            /\ clips' = <<>>
            /\ status' = [NullStatus EXCEPT !.status = "queued"]
            /\ \E k \in Slots :
                  /\ submit_pc[k] = "none"
                  /\ \A i \in 1..(k - 1) : submit_pc[i] # "none"
                  /\ submit_req' = [submit_req EXCEPT ![k] =
                                       [url |-> url, duration |-> formDuration,
                                        clip_count |-> clipCount]]
                  /\ submit_pc' = [submit_pc EXCEPT ![k] = "sent"]
            /\ UNCHANGED <<submit_reply, submit_msg>>
    /\ UNCHANGED <<url, formDuration, clipCount, jobId, selectedClip, polls,
                   serverVars>>
    /\ UNCHANGED notApp

\* The user clicks "Generate Shorts", which is there when submit_shown and
\* disabled while isValidYouTubeUrl rejects the URL: handleSubmit runs.
HandleSubmit ==
    /\ submit_shown
    /\ ~ url_rejected(url)
    /\ run_handleSubmit

\* A submit event is dispatched on the form without a click on the button (a
\* script or a test harness calls the form's onSubmit): the form is on screen
\* whenever the results view is not, and handleSubmit runs whatever the URL
\* and isProcessing are.
SubmitEventDispatched ==
    /\ ~ showResults
    /\ run_handleSubmit

\* POST /api/process-video reaches the server.
ServerProcessVideo ==
    /\ \E k \in Slots :
        /\ submit_pc[k] = "sent"
        /\ LET verdict == process_video(submit_req[k], server_jobs)
           IN  /\ last_verdict' = verdict
               /\ IF verdict = "accepted"
                  THEN /\ server_jobs' = Append(server_jobs, new_job(submit_req[k]))
                       /\ submit_pc' = [submit_pc EXCEPT ![k] = "ok"]
                       /\ submit_reply' = [submit_reply EXCEPT ![k] = Len(server_jobs) + 1]
                       /\ UNCHANGED submit_msg
                  ELSE /\ submit_pc' = [submit_pc EXCEPT ![k] = "error"]
                       /\ submit_msg' = [submit_msg EXCEPT ![k] = verdict]
                       /\ UNCHANGED <<server_jobs, submit_reply>>
    /\ UNCHANGED <<appState, submit_req, polls, api_req>>
    /\ UNCHANGED notApp

\* The request or its response is lost: fetch rejects.
SubmitNetworkFail ==
    /\ \E k \in Slots :
        /\ submit_pc[k] \in {"sent", "ok"}
        /\ submit_pc' = [submit_pc EXCEPT ![k] = "error"]
        /\ submit_msg' = [submit_msg EXCEPT ![k] = "Failed to fetch"]
    /\ UNCHANGED <<appState, submit_req, submit_reply, polls, serverVars>>
    /\ UNCHANGED notApp

\* handleSubmit after processVideo resolved: setJobId, pollJobStatus(jobId),
\* which runs up to `await getJobStatus(id)`.
SubmitResolved ==
    /\ \E k \in Slots :
        /\ submit_pc[k] = "ok"
        /\ jobId' = submit_reply[k]
        /\ polls' = [polls EXCEPT ![submit_reply[k]] =
                        [pc |-> "request", reply |-> NullStatus]]
        /\ submit_pc' = [submit_pc EXCEPT ![k] = "none"]
        /\ submit_req' = [submit_req EXCEPT ![k] = NoRequest]
        /\ submit_reply' = [submit_reply EXCEPT ![k] = 0]
    /\ UNCHANGED <<url, formDuration, clipCount, status, isProcessing, clips,
                   selectedClip, appError, submit_msg, serverVars>>
    /\ UNCHANGED notApp

\* `err.message || "Failed to start processing"`.
SubmitErrorDropped(msg) == "null"

submit_error(msg) == IF msg = "" THEN "Failed to start processing" ELSE msg

\* handleSubmit's catch.
SubmitRejected ==
    /\ \E k \in Slots :
        /\ submit_pc[k] = "error"
        /\ appError' = submit_error(submit_msg[k])
        /\ submit_pc' = [submit_pc EXCEPT ![k] = "none"]
        /\ submit_req' = [submit_req EXCEPT ![k] = NoRequest]
        /\ submit_reply' = [submit_reply EXCEPT ![k] = 0]
        /\ submit_msg' = [submit_msg EXCEPT ![k] = "null"]
    /\ isProcessing' = FALSE
    /\ UNCHANGED <<url, formDuration, clipCount, jobId, status, clips,
                   selectedClip, polls, serverVars>>
    /\ UNCHANGED notApp

\* Another client of the API sends a submission.
ApiSubmit ==
    /\ api_req = NoRequest
    /\ api_req' \in ApiRequests
    /\ UNCHANGED <<appState, submitVars, polls, server_jobs, last_verdict>>
    /\ UNCHANGED notApp

\* The server handles the other client's submission.
ServerProcessApi ==
    /\ api_req # NoRequest
    /\ LET verdict == process_video(api_req, server_jobs)
       IN  /\ last_verdict' = verdict
           /\ IF verdict = "accepted"
              THEN server_jobs' = Append(server_jobs, new_job(api_req))
              ELSE UNCHANGED server_jobs
    /\ api_req' = NoRequest
    /\ UNCHANGED <<appState, submitVars, polls>>
    /\ UNCHANGED notApp

\* The worker of job j moves it on: to the next stage, or to failed.
ServerAdvance ==
    /\ \E j \in 1..Len(server_jobs) :
        /\ isLoading(server_jobs[j].status)
        /\ \/ LET to == next_stage(server_jobs[j].status)
              IN  IF to = "completed"
                  THEN \E n \in 0..MaxClips :
                         server_jobs' = [server_jobs EXCEPT
                             ![j].status = to,
                             ![j].progress = stage_progress(to)[1],
                             ![j].clips = [i \in 1..n |-> i]]
                  ELSE server_jobs' = [server_jobs EXCEPT
                             ![j].status = to,
                             ![j].progress = stage_progress(to)[1]]
           \/ server_jobs' = [server_jobs EXCEPT
                             ![j].status = "failed",
                             ![j].error = "No engaging segments found"]
    /\ UNCHANGED <<appState, submitVars, polls, api_req, last_verdict>>
    /\ UNCHANGED notApp

\* GET /api/status/{job_id} reaches the server and is answered.
ServerStatus ==
    /\ \E j \in 1..Len(server_jobs) :
        /\ polls[j].pc = "request"
        /\ polls' = [polls EXCEPT ![j] =
                        [pc |-> "response", reply |-> status_response(server_jobs[j])]]
    /\ UNCHANGED <<appState, submitVars, serverVars>>
    /\ UNCHANGED notApp

\* The status request or its response is lost.
StatusNetworkFail ==
    /\ \E j \in 1..MaxJobs :
        /\ polls[j].pc \in {"request", "response"}
        /\ polls' = [polls EXCEPT ![j] = [pc |-> "failed", reply |-> NullStatus]]
    /\ UNCHANGED <<appState, submitVars, serverVars>>
    /\ UNCHANGED notApp

\* Where pollJobStatus goes after a response: into the 2 s delay before the
\* next request, or to its end.
AfterResponseRetriesFailed(res) ==
    IF res.status = "completed" THEN "ended" ELSE "delay"

after_response(res) ==
    IF res.status = "completed" THEN "ended"
    ELSE IF res.status = "failed" THEN "ended"
    ELSE "delay"

\* pollJobStatus after getJobStatus resolved.
PollResponse ==
    /\ \E j \in 1..MaxJobs :
        /\ polls[j].pc = "response"
        /\ LET res == polls[j].reply
           IN  /\ status' = res
               /\ IF res.status = "completed"
                  THEN /\ clips' = res.clips
                       /\ isProcessing' = FALSE
                       /\ selectedClip' = IF Len(res.clips) > 0
                                          THEN res.clips[1] ELSE selectedClip
                       /\ polls' = [polls EXCEPT ![j] =
                                       [pc |-> after_response(res), reply |-> NullStatus]]
                       /\ UNCHANGED appError
                  ELSE IF res.status = "failed"
                  THEN /\ appError' = IF res.error = "null"
                                      THEN "Processing failed" ELSE res.error
                       /\ isProcessing' = FALSE
                       /\ polls' = [polls EXCEPT ![j] =
                                       [pc |-> after_response(res), reply |-> NullStatus]]
                       /\ UNCHANGED <<clips, selectedClip>>
                  ELSE /\ polls' = [polls EXCEPT ![j] =
                                       [pc |-> after_response(res), reply |-> NullStatus]]
                       /\ UNCHANGED <<clips, isProcessing, selectedClip, appError>>
    /\ UNCHANGED <<url, formDuration, clipCount, jobId, submitVars, serverVars>>
    /\ UNCHANGED notApp

\* pollJobStatus's catch.
PollRejected ==
    /\ \E j \in 1..MaxJobs :
        /\ polls[j].pc = "failed"
        /\ polls' = [polls EXCEPT ![j] = [pc |-> "ended", reply |-> NullStatus]]
    /\ appError' = "Lost connection to server"
    /\ isProcessing' = FALSE
    /\ UNCHANGED <<url, formDuration, clipCount, jobId, status, clips,
                   selectedClip, submitVars, serverVars>>
    /\ UNCHANGED notApp

\* delay(2000) is over: pollJobStatus(id) again, up to its await.
PollDelay ==
    /\ \E j \in 1..MaxJobs :
        /\ polls[j].pc = "delay"
        /\ polls' = [polls EXCEPT ![j] = [pc |-> "request", reply |-> NullStatus]]
    /\ UNCHANGED <<appState, submitVars, serverVars>>
    /\ UNCHANGED notApp

\* handleReset ("New Video", in the results view).
HandleReset ==
    /\ showResults
    /\ url' = EmptyUrl
    /\ formDuration' = DEFAULT_DURATION
    /\ clipCount' = DEFAULT_CLIP_COUNT
    /\ jobId' = 0
    /\ status' = NullStatus
    /\ isProcessing' = FALSE
    /\ clips' = <<>>
    /\ selectedClip' = 0
    /\ appError' = "null"
    /\ UNCHANGED <<submitVars, polls, serverVars>>
    /\ UNCHANGED notApp

(***************************************************************************)
(* The download buttons of the results view: one DownloadButton per clip   *)
(* and the DownloadAllButton.  downloadClip has no await of its own, so the *)
(* promise it returns is settled when the call returns, and the code after *)
(* `await downloadClip(..)` runs as a microtask: before any timer callback *)
(* and before any click.                                                   *)
(***************************************************************************)
\* A timer callback or a click handler may start: no continuation waits.
TaskMayRunAnytime(m) == TRUE

task_may_run(m) == m = "none"

\* `setProgress(((i + 1) / clips.length) * 100)`.
ProgressAfterZeroBased(i, n) == <<i * 100, n>>

progress_after(i, n) == <<(i + 1) * 100, n>>

\* DownloadButton.handleDownload up to `await downloadClip(jobId, clipIndex)`.
HandleDownload ==
    /\ task_may_run(micro)
    /\ \E c \in 1..Len(dl_clips), ok \in BOOLEAN :
        /\ button_status[c] # "downloading"
        /\ button_timers[c] < MaxTimers
        /\ button_status' = [button_status EXCEPT ![c] = "downloading"]
        /\ micro' = "button"
        /\ micro_clip' = c
        /\ micro_ok' = ok
    /\ UNCHANGED <<dl_clips, button_timers, allVars>>
    /\ UNCHANGED notDl

\* handleDownload after the await: success and a 2 s reset timer, or the
\* catch with error and a 3 s reset timer.
HandleDownloadResume ==
    /\ micro = "button"
    /\ button_status' = [button_status EXCEPT
                             ![micro_clip] = IF micro_ok THEN "success" ELSE "error"]
    /\ button_timers' = [button_timers EXCEPT ![micro_clip] = @ + 1]
    /\ micro' = "none"
    /\ micro_clip' = 0
    /\ micro_ok' = TRUE
    /\ UNCHANGED <<dl_clips, allVars>>
    /\ UNCHANGED notDl

\* A reset timer of a button fires: `setStatus("idle")`.
ResetTimer ==
    /\ task_may_run(micro)
    /\ \E c \in 1..MaxClips :
        /\ button_timers[c] > 0
        /\ button_timers' = [button_timers EXCEPT ![c] = @ - 1]
        /\ button_status' = [button_status EXCEPT ![c] = "idle"]
    /\ UNCHANGED <<dl_clips, microVars, allVars>>
    /\ UNCHANGED notDl

\* DownloadAllButton.handleDownloadAll up to the first
\* `await downloadClip(jobId, clips[i].index)`.
HandleDownloadAll ==
    /\ task_may_run(micro)
    /\ ~ (downloading \/ Len(dl_clips) = 0)
    /\ downloading' = TRUE
    /\ all_progress' = <<0, 1>>
    /\ all_i' = 0
    /\ all_pc' = "call"
    /\ \E ok \in BOOLEAN :
        /\ micro_ok' = ok
        /\ all_log' = IF ok THEN <<dl_clips[1]>> ELSE <<>>
    /\ micro' = "all"
    /\ UNCHANGED <<dl_clips, buttonVars, micro_clip>>
    /\ UNCHANGED notDl

\* handleDownloadAll after `await downloadClip(..)`: setProgress and the
\* 500 ms pause, or the catch.
HandleDownloadAllResume ==
    /\ micro = "all"
    /\ IF micro_ok
       THEN /\ all_progress' = progress_after(all_i, Len(dl_clips))
            /\ all_pc' = "pause"
            /\ UNCHANGED downloading
       ELSE /\ downloading' = FALSE
            /\ all_pc' = "idle"
            /\ UNCHANGED all_progress
    /\ micro' = "none"
    /\ micro_ok' = TRUE
    /\ UNCHANGED <<dl_clips, buttonVars, micro_clip, all_i, all_log>>
    /\ UNCHANGED notDl

\* The 500 ms pause is over: i++, and the next downloadClip call or the end
\* of the loop with `setDownloading(false)`.
HandleDownloadAllNext ==
    /\ task_may_run(micro)
    /\ all_pc = "pause"
    /\ all_i' = all_i + 1
    /\ IF all_i + 1 < Len(dl_clips)
       THEN /\ all_pc' = "call"
            /\ \E ok \in BOOLEAN :
                /\ micro_ok' = ok
                /\ all_log' = IF ok THEN Append(all_log, dl_clips[all_i + 2])
                                    ELSE all_log
            /\ micro' = "all"
            /\ UNCHANGED downloading
       ELSE /\ downloading' = FALSE
            /\ all_pc' = "idle"
            /\ UNCHANGED <<micro, micro_ok, all_log>>
    /\ UNCHANGED <<dl_clips, buttonVars, micro_clip, all_progress>>
    /\ UNCHANGED notDl

\* The buttons as mounted.
InitButtons ==
    /\ button_status = [c \in 1..MaxClips |-> "idle"]
    /\ button_timers = [c \in 1..MaxClips |-> 0]
    /\ micro = "none"
    /\ micro_clip = 0
    /\ micro_ok = TRUE
    /\ downloading = FALSE
    /\ all_progress = <<0, 1>>
    /\ all_i = 0
    /\ all_pc = "idle"
    /\ all_log = <<>>

\* The results view with its clips (none: the button is disabled).
InitDownload ==
    /\ \E n \in 0..MaxClips : dl_clips = [i \in 1..n |-> i]
    /\ InitButtons

\* No results view.
NoDownload == dl_clips = <<>> /\ InitButtons

\* App as mounted, and a server without jobs.
InitAppState ==
    /\ url = EmptyUrl
    /\ formDuration = DEFAULT_DURATION
    /\ clipCount = DEFAULT_CLIP_COUNT
    /\ jobId = 0
    /\ status = NullStatus
    /\ isProcessing = FALSE
    /\ clips = <<>>
    /\ selectedClip = 0
    /\ appError = "null"
    /\ submit_pc = [k \in Slots |-> "none"]
    /\ submit_req = [k \in Slots |-> NoRequest]
    /\ submit_reply = [k \in Slots |-> 0]
    /\ submit_msg = [k \in Slots |-> "null"]
    /\ polls = [j \in 1..MaxJobs |-> NoPoll]
    /\ api_req = NoRequest
    /\ server_jobs = <<>>
    /\ last_verdict = "none"

\* No App: the other parts run on their own.
NoApp == InitAppState

\* No fusion run of its own: the job calls fuse itself.
NoFuse ==
    /\ fuse_usable = {}
    /\ fuse_present = {}
    /\ fuse_scores = [a \in Analyzers |-> 0]
    /\ fuse_weights = [a \in Analyzers |-> 0]
    /\ fuse_total = 0
    /\ fuse_out = -1
    /\ fuse_pc = "idle"

\* The record of no job.
NoRecord == [status |-> "none", progress |-> 0, segments |-> <<>>, error |-> "null"]

\* No status read.
NoRead ==
    /\ read_pc = "off"
    /\ read_seen = NoRecord
    /\ snapshot = NoRecord
    /\ read_raced = FALSE

Init ==
    NoSelect /\ NoFuse /\ NoRead /\ NoApp /\ NoDownload /\ NoCancel /\ InitJob

\* App with every event that can reach it, submit events that no click on
\* the button sent included, and its server.
AppNext ==
    \/ SetUrl
    \/ SetDuration
    \/ SetClipCount
    \/ SetSelectedClip
    \/ HandleSubmit
    \/ SubmitEventDispatched
    \/ ServerProcessVideo
    \/ SubmitNetworkFail
    \/ SubmitResolved
    \/ SubmitRejected
    \/ ServerAdvance
    \/ ServerStatus
    \/ StatusNetworkFail
    \/ PollResponse
    \/ PollRejected
    \/ PollDelay
    \/ HandleReset

InitApp ==
    /\ InitAppState
    /\ NoSelect /\ NoFuse /\ NoRead /\ NoJob /\ NoDownload /\ NoCancel

\* App with a user who acts through the controls on screen only: no submit
\* event reaches the form but by a click on its button.
UserNext ==
    \/ SetUrl
    \/ SetDuration
    \/ SetClipCount
    \/ SetSelectedClip
    \/ HandleSubmit
    \/ ServerProcessVideo
    \/ SubmitNetworkFail
    \/ SubmitResolved
    \/ SubmitRejected
    \/ ServerAdvance
    \/ ServerStatus
    \/ StatusNetworkFail
    \/ PollResponse
    \/ PollRejected
    \/ PollDelay
    \/ HandleReset

SpecUser == InitApp /\ [][UserNext]_vars

DownloadNext ==
    \/ HandleDownload
    \/ HandleDownloadResume
    \/ ResetTimer
    \/ HandleDownloadAll
    \/ HandleDownloadAllResume
    \/ HandleDownloadAllNext

InitResults ==
    InitDownload /\ NoSelect /\ NoFuse /\ NoRead /\ NoJob /\ NoApp /\ NoCancel

SpecDownload == InitResults /\ [][DownloadNext]_vars

SpecApp == InitApp /\ [][AppNext]_vars

\* Polling: the user has typed a valid URL and leaves it alone; everything
\* else runs as in SpecUser.  The event loop runs
\* every continuation and timer that is ready, the server answers the requests
\* that reach it, and the worker gets on with its job.
InitPoll ==
    /\ url \in {u \in UrlSamples : isValidYouTubeUrl(u)}
    /\ formDuration = DEFAULT_DURATION
    /\ clipCount = DEFAULT_CLIP_COUNT
    /\ jobId = 0
    /\ status = NullStatus
    /\ isProcessing = FALSE
    /\ clips = <<>>
    /\ selectedClip = 0
    /\ appError = "null"
    /\ submit_pc = [k \in Slots |-> "none"]
    /\ submit_req = [k \in Slots |-> NoRequest]
    /\ submit_reply = [k \in Slots |-> 0]
    /\ submit_msg = [k \in Slots |-> "null"]
    /\ polls = [j \in 1..MaxJobs |-> NoPoll]
    /\ api_req = NoRequest
    /\ server_jobs = <<>>
    /\ last_verdict = "none"
    /\ NoSelect /\ NoFuse /\ NoRead /\ NoJob /\ NoDownload /\ NoCancel

PollNext ==
    \/ SetDuration
    \/ SetClipCount
    \/ SetSelectedClip
    \/ HandleSubmit
    \/ ServerProcessVideo
    \/ SubmitNetworkFail
    \/ SubmitResolved
    \/ SubmitRejected
    \/ ServerAdvance
    \/ ServerStatus
    \/ StatusNetworkFail
    \/ PollResponse
    \/ PollRejected
    \/ PollDelay
    \/ HandleReset

SpecPoll ==
    /\ InitPoll
    /\ [][PollNext]_vars
    /\ WF_vars(ServerAdvance)
    /\ WF_vars(ServerStatus)
    /\ WF_vars(PollResponse)
    /\ WF_vars(PollRejected)
    /\ WF_vars(PollDelay)

\* App as mounted, after the user has picked a duration and a clip count.
InitSubmit ==
    /\ url = EmptyUrl
    /\ formDuration \in DURATION_OPTIONS
    /\ clipCount \in CLIP_COUNT_OPTIONS
    /\ jobId = 0
    /\ status = NullStatus
    /\ isProcessing = FALSE
    /\ clips = <<>>
    /\ selectedClip = 0
    /\ appError = "null"
    /\ submit_pc = [k \in Slots |-> "none"]
    /\ submit_req = [k \in Slots |-> NoRequest]
    /\ submit_reply = [k \in Slots |-> 0]
    /\ submit_msg = [k \in Slots |-> "null"]
    /\ polls = [j \in 1..MaxJobs |-> NoPoll]
    /\ api_req = NoRequest
    /\ server_jobs = <<>>
    /\ last_verdict = "none"
    /\ NoSelect /\ NoFuse /\ NoRead /\ NoJob /\ NoDownload /\ NoCancel

\* Submission alone: the URL input, submit events from the button and from
\* elsewhere, the processVideo calls, another client of the API, and the
\* server's handling of both; the duration and the clip count stay as picked.
SubmitNext ==
    \/ SetUrl
    \/ HandleSubmit
    \/ SubmitEventDispatched
    \/ ServerProcessVideo
    \/ SubmitNetworkFail
    \/ SubmitResolved
    \/ SubmitRejected
    \/ ApiSubmit
    \/ ServerProcessApi

SpecSubmit == InitSubmit /\ [][SubmitNext]_vars

Next ==
    \/ StartDownload
    \/ FetchReport
    \/ FetchFail
    \/ StartAnalyzing
    \/ AnalyzerReport
    \/ Join
    \/ RenderResult
    \/ SystemFail

Spec == Init /\ [][Next]_vars

(***************************************************************************)
(* Deletion of a job.  DELETE /api/job/{job_id} signals cancellation to    *)
(* the job's worker and removes the record once no worker holds it.        *)
(***************************************************************************)
\* A worker holds the job: it is queued for it or working on it.
WorkerHoldsNever(s) == FALSE

worker_holds(s) == s \in {"queued", "downloading", "analyzing", "processing"}

\* The worker resumes at a suspension point (the media fetcher, the join, the
\* renderer, the pick-up of the job) and goes on with the pipeline: no
\* cancellation is signalled.
WorkerResume ==
    /\ cancel = "none"
    /\ record
    /\ Next

\* DELETE arrives.  A job no worker holds is removed at once; otherwise the
\* cancellation is signalled and the record stays.
DeleteJob ==
    /\ record
    /\ cancel = "none"
    /\ IF worker_holds(stage)
       THEN cancel' = "requested" /\ UNCHANGED record
       ELSE record' = FALSE /\ UNCHANGED cancel
    /\ UNCHANGED jobVars
    /\ UNCHANGED notJobCancel

\* The worker resumes at its next suspension point and finds the cancellation:
\* the job fails.
ObserveCancel ==
    /\ cancel = "requested"
    /\ record
    /\ stage' = "failed"
    /\ error' = "Cancelled"
    /\ trail' = Append(trail, "failed")
    /\ cancel' = "observed"
    /\ UNCHANGED <<media_duration, job_duration, job_count, progress,
                   segments, fetched, analyzer, record>>
    /\ UNCHANGED notJobCancel

\* The worker has let go of the cancelled job: artifacts and record go.
RemoveRecord ==
    /\ cancel = "observed"
    /\ record
    /\ ~ worker_holds(stage)
    /\ record' = FALSE
    /\ UNCHANGED <<jobVars, cancel>>
    /\ UNCHANGED notJobCancel

CancelNext ==
    \/ WorkerResume
    \/ DeleteJob
    \/ ObserveCancel
    \/ RemoveRecord

\* One request shape keeps the runs with deletion small.
InitCancel == Init /\ job_duration = 120 /\ job_count = 5

SpecCancel == InitCancel /\ [][CancelNext]_vars

\* The worker's scheduling: an analyzer call returns or runs into its timeout,
\* and the worker resumes at the join once it can.  JoinFair is WF_vars(Join)
\* with ENABLED <<Join>>_vars written out: Join can be taken exactly when the
\* job is in analyzing and every analyzer has reported, and it always changes
\* the stage.
JoinFair ==
    \/ []<>(~ (stage = "analyzing"
               /\ \A a \in Analyzers :
                      analyzer[a] \in {"ok", "empty", "unavailable"}))
    \/ []<><<Join>>_vars

SpecFair == Init /\ [][Next]_vars /\ WF_vars(AnalyzerReport) /\ JoinFair

(***************************************************************************)
(* Status reads (GET /api/status/{job_id}) while the worker runs.  The     *)
(* worker's steps are the actions above, each one whole update of the      *)
(* record; a read takes a copy of the record and returns it later.         *)
(***************************************************************************)
job_record ==
    [status |-> stage, progress |-> progress, segments |-> segments,
     error |-> error]

\* What a read that copied `copy` returns when the record has become `now`.
TornRead(copy, now) == [copy EXCEPT !.status = now.status]

read_job(copy, now) == copy

\* The store takes the read's copy of the record.
ReadBegin ==
    /\ read_pc = "idle"
    /\ read_pc' = "reading"
    /\ read_seen' = job_record
    /\ snapshot' = NoRecord
    /\ read_raced' = FALSE
    /\ UNCHANGED notRead

\* The read returns.
ReadEnd ==
    /\ read_pc = "reading"
    /\ read_pc' = "idle"
    /\ snapshot' = read_job(read_seen, job_record)
    /\ read_raced' = (read_seen # job_record)
    /\ read_seen' = NoRecord
    /\ UNCHANGED notRead

\* One job (60 s clips, 5 clips, the long source) and its poller.
InitRead ==
    /\ InitJob
    /\ media_duration = LongMedia
    /\ job_duration = 60
    /\ job_count = 5
    /\ read_pc = "idle"
    /\ read_seen = NoRecord
    /\ snapshot = NoRecord
    /\ read_raced = FALSE
    /\ NoSelect
    /\ NoFuse
    /\ NoApp
    /\ NoDownload
    /\ NoCancel

ReadNext ==
    \/ StartDownload
    \/ FetchReport
    \/ FetchFail
    \/ StartAnalyzing
    \/ AnalyzerReport
    \/ Join
    \/ RenderResult
    \/ SystemFail
    \/ ReadBegin
    \/ ReadEnd

SpecRead == InitRead /\ [][ReadNext]_vars

(***************************************************************************)
(* The selector run step by step.                                          *)
(***************************************************************************)
\* Generate and rank the candidates; selected = [].
SelectStart ==
    /\ sel_pc = "start"
    /\ rest' = sorted_by_score(candidate_segments(curve, clip_duration))
    /\ selected' = <<>>
    /\ sel_pc' = "loop"
    /\ UNCHANGED <<curve, clip_duration, clip_count, min_gap, result>>
    /\ UNCHANGED notSel

\* One iteration of the for loop.
SelectLoop ==
    /\ sel_pc = "loop"
    /\ ~ loop_ends(selected, rest, clip_count)
    /\ selected' = loop_body(Head(rest), selected, clip_duration, min_gap)
    /\ rest' = Tail(rest)
    /\ UNCHANGED <<curve, clip_duration, clip_count, min_gap, sel_pc, result>>
    /\ UNCHANGED notSel

\* The loop ends (break, or candidates exhausted): return sorted_by_timestamp.
SelectReturn ==
    /\ sel_pc = "loop"
    /\ loop_ends(selected, rest, clip_count)
    /\ result' = sorted_by_timestamp(selected)
    /\ sel_pc' = "done"
    /\ UNCHANGED <<curve, clip_duration, clip_count, min_gap, rest, selected>>
    /\ UNCHANGED notSel

SelectNext == SelectStart \/ SelectLoop \/ SelectReturn

InitSelect ==
    /\ curve \in SeqsUpTo(0..MaxScore, MaxLen)
    /\ clip_duration \in 1..MaxDuration
    /\ clip_count \in 1..MaxCount
    /\ min_gap = MIN_GAP
    /\ sel_pc = "start"
    /\ rest = <<>>
    /\ selected = <<>>
    /\ result = <<>>
    /\ NoJob
    /\ NoFuse
    /\ NoRead
    /\ NoApp
    /\ NoDownload
    /\ NoCancel

SpecSelect == InitSelect /\ [][SelectNext]_vars

\* The step-by-step run returns what the function returns.
SelectRunAgrees ==
    sel_pc = "done" =>
        result = select_best_segments(curve, clip_duration, clip_count, min_gap)

(***************************************************************************)
(* Scenario A: a 300 s curve, 60 s clips, 5 clips, 2 s gap.  The curves    *)
(* are flat at 0 except for a high spike (100) in second p and a lower one *)
(* (50) in second q; p = q gives a single spike, and p = q = 0 the flat    *)
(* curve.                                                                  *)
(***************************************************************************)
ScenarioASpikes == {0, 1, 61, 121, 122, 181, 244, 300}

ScenarioACurve(p, q) ==
    [i \in 1..300 |-> IF i = p THEN 100 ELSE IF i = q THEN 50 ELSE 0]

InitScenarioA ==
    /\ \E p \in ScenarioASpikes, q \in ScenarioASpikes : curve = ScenarioACurve(p, q)
    /\ clip_duration = 60
    /\ clip_count = 5
    /\ min_gap = 2
    /\ sel_pc = "start"
    /\ rest = <<>>
    /\ selected = <<>>
    /\ result = <<>>
    /\ NoJob
    /\ NoFuse
    /\ NoRead
    /\ NoApp
    /\ NoDownload
    /\ NoCancel

SpecScenarioA == InitScenarioA /\ [][SelectNext]_vars

(***************************************************************************)
(* Score fusion for one timestamp of one job run, step by step.            *)
(***************************************************************************)
ScoreGrid == {(100 * k) \div ScoreLevels : k \in 0..ScoreLevels}

\* The analyzers are resolved once per run: the weight table is fixed.
FuseResolve ==
    /\ fuse_pc = "start"
    /\ fuse_weights' = weight_table(fuse_usable)
    /\ fuse_total' = weight_total(fuse_usable)
    /\ fuse_pc' = "resolved"
    /\ UNCHANGED <<fuse_usable, fuse_present, fuse_scores, fuse_out>>
    /\ UNCHANGED notFuse

\* The fused score of the timestamp.
FuseSample ==
    /\ fuse_pc = "resolved"
    /\ fuse_out' = fused_sample(fuse_scores, fuse_present, fuse_usable)
    /\ fuse_pc' = "done"
    /\ UNCHANGED <<fuse_usable, fuse_present, fuse_scores, fuse_weights,
                   fuse_total>>
    /\ UNCHANGED notFuse

FuseNext == FuseResolve \/ FuseSample

\* Every non-empty set of analyzers that produced scores, every subset of it
\* present at the timestamp, every score of the grid for those.
InitFuse ==
    /\ fuse_usable \in SUBSET Analyzers \ {{}}
    /\ fuse_present \in SUBSET fuse_usable
    /\ fuse_scores \in [Analyzers -> ScoreGrid]
    /\ \A a \in Analyzers \ fuse_present : fuse_scores[a] = 0
    /\ fuse_weights = [a \in Analyzers |-> 0]
    /\ fuse_total = 0
    /\ fuse_out = -1
    /\ fuse_pc = "start"
    /\ NoSelect
    /\ NoJob
    /\ NoRead
    /\ NoApp
    /\ NoDownload
    /\ NoCancel

SpecFuse == InitFuse /\ [][FuseNext]_vars

(***************************************************************************)
(* Properties of the selector.                                             *)
(***************************************************************************)
StartTimes(segs) == {segs[i].start_time : i \in 1..Len(segs)}

\* Every two distinct segments of segs start at least d seconds apart.
PairwiseApart(segs, d) ==
    \A i, j \in 1..Len(segs) :
        i # j => Abs(segs[i].start_time - segs[j].start_time) >= d

\* The candidate windows contain `count` windows whose starts are pairwise
\* at least d apart.
CandidatesApart(d) ==
    \E S \in SUBSET StartTimes(candidate_segments(curve, clip_duration)) :
        /\ Cardinality(S) = clip_count
        /\ \A a, b \in S : a # b => Abs(a - b) >= d

\* C1: any two distinct segments returned by select start at least
\* clip_duration + min_gap apart (no overlap, min_gap separation).
C1_MinSeparation ==
    sel_pc = "done" => PairwiseApart(result, clip_duration + min_gap)

\* C1 witness: select returned several segments after rejecting candidates.
C1_Witness ==
    /\ sel_pc = "done"
    /\ Len(result) >= 2
    /\ min_gap = 2
    /\ Len(candidate_segments(curve, clip_duration)) > Len(result) + Len(rest)

\* C2 as stated: at most clip_count segments, and exactly clip_count whenever
\* clip_count candidates pairwise clip_duration + min_gap apart exist.
C2_Original ==
    sel_pc = "done" =>
        /\ Len(result) <= clip_count
        /\ CandidatesApart(clip_duration + min_gap) => Len(result) = clip_count

\* C2 amended: at most clip_count segments, and exactly clip_count whenever
\* clip_count candidates exist whose starts are pairwise at least
\* 2 * (clip_duration + min_gap) - 1 apart (each accepted segment then rules
\* out at most one of them).
C2_CountBound ==
    sel_pc = "done" =>
        /\ Len(result) <= clip_count
        /\ CandidatesApart(2 * (clip_duration + min_gap) - 1)
               => Len(result) = clip_count

\* C2 witness: the amended precondition holds with a real exclusion zone and
\* select returned clip_count >= 2 segments.
C2_Witness ==
    /\ sel_pc = "done"
    /\ clip_count >= 2
    /\ clip_duration + min_gap >= 2
    /\ CandidatesApart(2 * (clip_duration + min_gap) - 1)
    /\ Len(result) = clip_count

\* C3 as stated: Scenario A always yields exactly 5 segments, pairwise 62 s apart.
C3_Original ==
    sel_pc = "done" => (Len(result) = 5 /\ PairwiseApart(result, 62))

\* C3 amended: Scenario A yields at least 2 and at most 4 segments, pairwise
\* at least 62 s apart (the 241 windows that fit in 300 s cannot hold 5).
C3_ScenarioA ==
    sel_pc = "done" =>
        (Len(result) >= 2 /\ Len(result) <= 4 /\ PairwiseApart(result, 62))

\* C3 witness: a Scenario A run that returned only 2 segments.
C3_Witness ==
    /\ sel_pc = "done"
    /\ Len(curve) = 300 /\ clip_duration = 60 /\ clip_count = 5 /\ min_gap = 2
    /\ Len(result) = 2

\* Scenario A can also return 4 segments.
C3_FourReached == sel_pc = "done" /\ Len(result) = 4

\* C13: the sequence select returns is sorted by strictly increasing start
\* time, whatever order the greedy pass accepted the candidates in; it holds
\* the segments the pass accepted, each once.
C13_SortedByStart ==
    sel_pc = "done" =>
        /\ \A i \in 1..(Len(result) - 1) :
               result[i].start_time < result[i + 1].start_time
        /\ Len(result) = Len(selected)
        /\ {result[i] : i \in 1..Len(result)}
               = {selected[i] : i \in 1..Len(selected)}

\* C13 witness: the greedy pass accepted a later window before an earlier
\* one, so that the returned order differs from the acceptance order.
C13_Witness ==
    /\ sel_pc = "done"
    /\ Len(selected) >= 2
    /\ selected[1].start_time > selected[2].start_time
    /\ result # selected

\* The candidate windows of the run, and the elements of a sequence.
Candidates ==
    {candidate_segments(curve, clip_duration)[k] :
        k \in 1..Len(candidate_segments(curve, clip_duration))}

Elems(q) == {q[i] : i \in 1..Len(q)}

\* a and b start less than clip_duration + min_gap apart.
Conflict(a, b) == Abs(a.start_time - b.start_time) < clip_duration + min_gap

\* a is visited before b: higher score, or equal score and earlier start.
RanksHigher(a, b) ==
    a.score > b.score \/ (a.score = b.score /\ a.start_time < b.start_time)

\* The for loop accepts the candidate it is looking at.
Accepts == sel_pc = "loop" /\ Len(selected') = Len(selected) + 1

\* C23: candidates are visited by descending score and, at equal score, by
\* ascending start time; a candidate the greedy pass accepts starts no later
\* than any other candidate of the same score that is compatible with the
\* segments accepted so far and not accepted itself; so a candidate left out
\* in favour of a later one of equal score that conflicts with it was in
\* conflict with a segment accepted before.
C23_TieBreak ==
    /\ [](sel_pc = "loop" =>
             \A i, j \in 1..Len(rest) : i < j => RanksHigher(rest[i], rest[j]))
    /\ [][Accepts =>
             \A c \in Candidates \ Elems(selected) :
                 (/\ c.score = selected'[Len(selected')].score
                  /\ \A a \in Elems(selected) : ~ Conflict(a, c))
                     => selected'[Len(selected')].start_time <= c.start_time]_vars
    /\ [](sel_pc = "done" =>
             \A a \in Elems(result), c \in Candidates \ Elems(result) :
                 (c.score = a.score /\ c.start_time < a.start_time
                  /\ Conflict(a, c))
                     => \E b \in Elems(result) :
                            b # a /\ RanksHigher(b, c) /\ Conflict(b, c))

\* C23 witness: two windows of equal, non-zero score that conflict; select
\* returned the earlier one and left the later one out.
C23_Witness ==
    /\ sel_pc = "done"
    /\ \E a \in Elems(result), c \in Candidates \ Elems(result) :
           /\ a.score = c.score
           /\ a.score > 0
           /\ a.start_time < c.start_time
           /\ Conflict(a, c)
           /\ \A b \in Elems(result) : b # a => ~ Conflict(b, c)

\* C24: greedy acceptance.  A candidate the for loop accepts is the one it
\* is looking at, with fewer than clip_count accepted before, compatible
\* with every segment accepted before, and of a score no lower than any
\* candidate not yet visited; a candidate is left out of the result only if
\* it conflicts with a returned segment that ranks higher, or if clip_count
\* segments that rank higher were returned.
C24_GreedyAcceptance ==
    /\ [][Accepts =>
             /\ selected' = Append(selected, Head(rest))
             /\ Len(selected) < clip_count
             /\ \A a \in Elems(selected) : ~ Conflict(a, Head(rest))
             /\ \A c \in Elems(rest) : c.score <= Head(rest).score]_vars
    /\ [](sel_pc = "done" =>
             /\ Elems(result) \subseteq Candidates
             /\ \A c \in Candidates \ Elems(result) :
                    \/ \E a \in Elems(result) : RanksHigher(a, c) /\ Conflict(a, c)
                    \/ Cardinality({a \in Elems(result) : RanksHigher(a, c)})
                           = clip_count)

\* C24 witness: a run that left one candidate out for a conflict and another,
\* compatible with everything returned, because clip_count was reached.
C24_Witness ==
    /\ sel_pc = "done"
    /\ Len(result) = clip_count
    /\ \E c \in Candidates \ Elems(result) :
           \E a \in Elems(result) : RanksHigher(a, c) /\ Conflict(a, c)
    /\ \E c \in Candidates \ Elems(result) :
           \A a \in Elems(result) : ~ Conflict(a, c)

(***************************************************************************)
(* Properties of score fusion.                                             *)
(***************************************************************************)
Resolved == fuse_pc \in {"resolved", "done"}

SemanticOnlyMissing == fuse_usable = Analyzers \ {"semantic"}

\* The default table as the specification states it, percent.
StatedDefault ==
    [semantic |-> 30, audio |-> 20, motion |-> 20, scene |-> 15, faces |-> 15]

\* The weights of the run keep the ratios of the stated default table.
KeepsDefaultRatios ==
    \A i, j \in fuse_usable :
        fuse_weights[i] * StatedDefault[j] = fuse_weights[j] * StatedDefault[i]

\* C14: for every non-empty set of analyzers that produced a score, the
\* weights fuse uses are each between 0 and the total they are taken over
\* and add up to exactly that total (each in [0,1], sum 1.0), analyzers that
\* produced nothing weigh 0, and a timestamp at which every usable analyzer
\* scores 100 fuses to 100.
C14_WeightsSumToOne ==
    /\ Resolved =>
           /\ fuse_total > 0
           /\ \A a \in Analyzers :
                  0 <= fuse_weights[a] /\ fuse_weights[a] <= fuse_total
           /\ \A a \in Analyzers \ fuse_usable : fuse_weights[a] = 0
           /\ SumOver(fuse_usable, fuse_weights) = fuse_total
    /\ (/\ fuse_pc = "done"
        /\ fuse_present = fuse_usable
        /\ \A a \in fuse_usable : fuse_scores[a] = 100) => fuse_out = 100

\* C14 witness: a renormalised table (audio and faces only: 20 and 15 of 35)
\* under which two full scores fuse to 100.
C14_Witness ==
    /\ fuse_pc = "done"
    /\ fuse_usable = {"audio", "faces"}
    /\ fuse_total = 35
    /\ fuse_present = fuse_usable
    /\ fuse_scores["audio"] = 100 /\ fuse_scores["faces"] = 100
    /\ fuse_out = 100

\* C15 (Scenario B): with the semantic analyzer the only one unavailable,
\* fuse uses exactly audio 30, motion 25, scene 20, faces 25 percent, which
\* add up to 100, and the fused score is that weighted sum.
C15_FallbackTable ==
    (Resolved /\ SemanticOnlyMissing) =>
        /\ fuse_weights = [semantic |-> 0, audio |-> 30, motion |-> 25,
                           scene |-> 20, faces |-> 25]
        /\ fuse_total = 100
        /\ SumOver(fuse_usable, fuse_weights) = 100
        /\ fuse_pc = "done" =>
               fuse_out = (30 * fuse_scores["audio"] + 25 * fuse_scores["motion"]
                           + 20 * fuse_scores["scene"] + 25 * fuse_scores["faces"])
                              \div 100

\* C15 witness: Scenario B with a full audio score alone: it fuses to 30.
C15_Witness ==
    /\ fuse_pc = "done"
    /\ SemanticOnlyMissing
    /\ fuse_present = fuse_usable
    /\ fuse_scores["audio"] = 100
    /\ \A a \in Analyzers \ {"audio"} : fuse_scores[a] = 0
    /\ fuse_out = 30

\* C16 as stated: whatever analyzers are unavailable, the weights of the
\* remaining ones keep the ratios of the default table.
C16_Original == Resolved => KeepsDefaultRatios

\* C16 amended: the weights of the remaining analyzers keep the ratios of the
\* default table for every set of unavailable analyzers except the set
\* holding the semantic analyzer alone; for that set the four-signal table
\* applies, which does not keep them (audio to motion is 30 to 25, not 20
\* to 20).
C16_RatiosPreserved ==
    Resolved =>
        IF SemanticOnlyMissing
        THEN /\ fuse_weights = FALLBACK_WEIGHTS
             /\ ~ KeepsDefaultRatios
        ELSE KeepsDefaultRatios

\* C16 witness: audio, motion and scene dropped; semantic and faces keep 30
\* to 15, rescaled over 45.
C16_Witness ==
    /\ Resolved
    /\ fuse_usable = {"semantic", "faces"}
    /\ fuse_weights["semantic"] = 30
    /\ fuse_weights["faces"] = 15
    /\ fuse_total = 45

\* C17: the fused score of a timestamp lies in 0..100 for every combination
\* of analyzer scores in 0..100, also when only some of the usable analyzers
\* have a score at that timestamp.
C17_FusedInRange ==
    fuse_pc = "done" => (0 <= fuse_out /\ fuse_out <= 100)

\* C17 witness: a timestamp at which some, not all, of the usable analyzers
\* have a score, fused to a value strictly inside the range.
C17_Witness ==
    /\ fuse_pc = "done"
    /\ fuse_present # {}
    /\ fuse_present # fuse_usable
    /\ \E a \in fuse_present : fuse_scores[a] = 100
    /\ 0 < fuse_out /\ fuse_out < 100

\* The top of the range is reached in Scenario B.
C17_TopReached == fuse_pc = "done" /\ SemanticOnlyMissing /\ fuse_out = 100

(***************************************************************************)
(* Properties of the job pipeline.                                         *)
(***************************************************************************)
StageOrder == <<"queued", "downloading", "analyzing", "processing", "completed">>

\* s is followed by t in Queued -> Downloading -> Analyzing -> Processing -> Completed.
Follows(s, t) ==
    \E k \in 1..(Len(StageOrder) - 1) : StageOrder[k] = s /\ StageOrder[k + 1] = t

NonTerminalStages == {"queued", "downloading", "analyzing", "processing"}

\* The source is shorter than one clip.
ShortMedia == media_duration < job_duration

\* The job ended for a reason other than a download, analyzer or system failure.
EndedAfterSelect ==
    /\ stage \in {"completed", "failed"}
    /\ error \notin {"DownloadError", "AnalysisError", "SystemError"}

\* C4 as stated: on a source shorter than the clip, select returns nothing and
\* the job that ran it ends Completed with an empty clip list, never Failed.
C4_Original ==
    (ShortMedia /\ EndedAfterSelect) => (stage = "completed" /\ segments = <<>>)

\* C4 amended: on a source shorter than the clip, select returns 0 segments
\* without an error, and the job that ran it never enters Processing or
\* Completed: it ends Failed with "No engaging segments found" and no clips.
C4_ShortMediaFails ==
    ShortMedia =>
        /\ select_best_segments(
               fuse(media_duration, IF Usable = {} THEN Analyzers ELSE Usable),
               job_duration, job_count, MIN_GAP) = <<>>
        /\ stage \notin {"processing", "completed"}
        /\ segments = <<>>
        /\ EndedAfterSelect =>
              (stage = "failed" /\ error = "No engaging segments found")

\* C4 witness: Scenario C (20 s source, 60 s clips) after select has run.
C4_Witness ==
    /\ media_duration = 20
    /\ job_duration = 60
    /\ Usable # {}
    /\ stage = "failed"
    /\ error = "No engaging segments found"

C5_Outcome ==
    /\ (stage = "failed" /\ error = "RenderError") =>
           (segments # <<>> /\ Rendered(segments, "failed") = 1..Len(segments))
    /\ stage = "completed" =>
           (Rendered(segments, "ok") # {} /\ Rendered(segments, "pending") = {})
    /\ (segments # <<>> /\ Rendered(segments, "pending") = {}) =>
           IF Rendered(segments, "ok") = {}
           THEN stage = "failed" /\ error = "RenderError"
           ELSE stage = "completed"

\* C5: once every render of a job in Processing has reported, the job is
\* Failed with a RenderError when all of them failed and Completed when at
\* least one succeeded; a step from Processing to Failed is either a system
\* failure or the step after which every segment's render has failed, so one
\* segment's failure alone never fails the job.
C5_RenderPolicy ==
    /\ []C5_Outcome
    /\ [][(stage = "processing" /\ stage' = "failed") =>
             \/ error' = "SystemError"
             \/ (error' = "RenderError"
                 /\ Rendered(segments', "failed") = 1..Len(segments'))]_vars

\* C5 witness: a partial render: Completed with a failed and a playable segment.
C5_Witness ==
    /\ stage = "completed"
    /\ Rendered(segments, "failed") # {}
    /\ Rendered(segments, "ok") # {}

\* A second case of C5: every render failed.
C5_AllFailedReached ==
    /\ stage = "failed" /\ error = "RenderError" /\ Len(segments) >= 2

\* C6: the stage only moves one step along Queued -> Downloading -> Analyzing
\* -> Processing -> Completed, or from a non-terminal stage to Failed; no
\* stage is entered twice, and Analyzing is entered only with the download
\* complete.
C6_StageOrder ==
    /\ [][stage' # stage =>
             \/ Follows(stage, stage')
             \/ (stage \in NonTerminalStages /\ stage' = "failed")]_vars
    /\ [](\A i, j \in 1..Len(trail) : i # j => trail[i] # trail[j])
    /\ [](stage = "analyzing" => fetched = Chunks)

\* C6 witness: a job that went through every stage to Completed.
C6_Witness == trail = StageOrder

\* Failed is reached from every non-terminal stage.
C6_FailedFromQueued == trail = <<"queued", "failed">>

\* C7: a terminal stage is entered at most once and never left.
C7_TerminalAbsorbing ==
    /\ [][(stage \in {"completed", "failed"}) => stage' = stage]_vars
    /\ [](Cardinality({i \in 1..Len(trail) : trail[i] \in {"completed", "failed"}}) <= 1)
    /\ [](stage \in {"completed", "failed"} => trail[Len(trail)] = stage)

\* C7 witness: a job in Completed.
C7_Witness == stage = "completed" /\ progress = 100 /\ trail[Len(trail)] = "completed"

\* C8: progress is a percentage in 0..100 and never decreases.
C8_ProgressMonotone ==
    /\ [](progress \in 0..100)
    /\ [][progress' >= progress]_vars

\* C8 witness: a job that failed in Processing, after progress had advanced.
C8_Witness == stage = "failed" /\ error = "RenderError" /\ progress > 60

\* C9: progress is tied to the stage.
C9_ProgressByStage ==
    /\ stage = "queued" => progress = 0
    /\ stage = "downloading" => (10 <= progress /\ progress <= 25)
    /\ stage = "analyzing" => (30 <= progress /\ progress <= 60)
    /\ stage = "processing" => (60 <= progress /\ progress <= 100)
    /\ stage = "completed" => progress = 100

\* C9 witness: Processing with some renders done.
C9_Witness == stage = "processing" /\ progress > 60

\* C10: entering Failed keeps progress and sets error; afterwards neither changes.
C10_FailedFreezes ==
    /\ [][(stage # "failed" /\ stage' = "failed") =>
             /\ stage \in NonTerminalStages
             /\ progress' = progress
             /\ error' # "null"]_vars
    /\ [][stage = "failed" => (progress' = progress /\ error' = error)]_vars
    /\ [](stage = "failed" => error # "null")

\* C10 witness: a download that failed part-way.
C10_Witness == stage = "failed" /\ error = "DownloadError" /\ progress > 10

\* C11: a job is Completed only after the render of every selected segment
\* has finished, in whatever order the renders return: no state has stage
\* Completed with a render pending, and the step into Completed is the step
\* in which the last pending render returns.
C11_CompletedAfterRenders ==
    /\ [](stage = "completed" =>
             (segments # <<>> /\ Rendered(segments, "pending") = {}))
    /\ [][(stage # "completed" /\ stage' = "completed") =>
             /\ stage = "processing"
             /\ Cardinality(Rendered(segments, "pending")) = 1
             /\ Rendered(segments', "pending") = {}]_vars

\* C11 witness: a Completed job of three or more segments whose first
\* segment's render succeeded.
C11_Witness ==
    /\ stage = "completed"
    /\ Len(segments) >= 3
    /\ segments[1].render = "ok"
    /\ Rendered(segments, "pending") = {}

\* The renders return out of chronological order: the last segment's render
\* is back while the first one's is pending.
C11_OutOfOrderReached ==
    /\ stage = "processing"
    /\ Len(segments) >= 2
    /\ segments[1].render = "pending"
    /\ segments[Len(segments)].render # "pending"

\* The analyzers that produced scores, and whether all five have returned.
ProducedScores == {a \in Analyzers : analyzer[a] = "ok"}
AllReturned == \A a \in Analyzers : analyzer[a] \in {"ok", "empty", "unavailable"}

\* C18 as stated (system failures left aside): with at least one analyzer
\* producing scores the job leaves Analyzing for Processing, and it leaves
\* Analyzing for Failed only when no analyzer produced a usable signal.
C18_Original ==
    /\ [][(stage = "analyzing" /\ stage' = "failed" /\ error' # "SystemError")
             => ProducedScores = {}]_vars
    /\ [][(stage = "analyzing" /\ stage' # stage /\ error' # "SystemError"
             /\ ProducedScores # {}) => stage' = "processing"]_vars

\* C18 amended: an analyzer that fails or produces nothing never changes the
\* job's stage or error by itself.  Once all five have returned, the job
\* fails with an AnalysisError exactly when none produced scores; with at
\* least one it goes on to Processing, unless the source is shorter than the
\* clip, in which case select finds nothing and the job fails with "No
\* engaging segments found".  The only other way from Analyzing to Failed is
\* a SystemError.
C18_FailureAbsorbed ==
    /\ [][(stage = "analyzing" /\ analyzer' # analyzer)
             => (stage' = stage /\ error' = error)]_vars
    /\ [][(stage = "analyzing" /\ stage' = "failed") =>
             \/ error' = "SystemError"
             \/ (AllReturned /\ ProducedScores = {} /\ error' = "AnalysisError")
             \/ (AllReturned /\ ProducedScores # {} /\ ShortMedia
                 /\ error' = "No engaging segments found")]_vars
    /\ [][(stage = "analyzing" /\ stage' = "processing") =>
             (AllReturned /\ ProducedScores # {} /\ ~ ShortMedia
              /\ segments' # <<>>)]_vars
    /\ [](stage \in {"processing", "completed"} => ProducedScores # {})
    /\ [](error = "AnalysisError" => (stage = "failed" /\ ProducedScores = {}))

\* C18 witness: a job in Processing on the scores of one analyzer, the
\* semantic analyzer being unavailable and another having produced nothing.
C18_Witness ==
    /\ stage = "processing"
    /\ analyzer["semantic"] = "unavailable"
    /\ Cardinality(ProducedScores) = 1
    /\ \E a \in Analyzers : analyzer[a] = "empty"
    /\ segments # <<>>

\* The fatal case of C18: no analyzer produced scores.
C18_TotalFailureReached ==
    /\ stage = "failed"
    /\ error = "AnalysisError"
    /\ \A a \in Analyzers : analyzer[a] = "unavailable"

\* A record as one whole update of the worker leaves it.
WholeRecord(r) ==
    /\ r.status \in {"queued", "downloading", "analyzing", "processing",
                      "completed", "failed"}
    /\ r.progress \in 0..100
    /\ r.status = "queued" => r.progress = 0
    /\ r.status = "downloading" => (10 <= r.progress /\ r.progress <= 25)
    /\ r.status = "analyzing" => (30 <= r.progress /\ r.progress <= 60)
    /\ r.status = "processing" => (60 <= r.progress /\ r.progress <= 100)
    /\ r.status \in {"queued", "downloading", "analyzing"} => r.segments = <<>>
    /\ r.status = "processing" =>
           (r.segments # <<>> /\ Rendered(r.segments, "pending") # {})
    /\ r.status = "completed" =>
           /\ r.progress = 100
           /\ r.segments # <<>>
           /\ Rendered(r.segments, "pending") = {}
           /\ Rendered(r.segments, "ok") # {}
    /\ (r.status = "failed") <=> (r.error # "null")

\* C22: fusion is a join.  The job leaves analyzing for processing, or fails
\* for lack of signal or of segments, only when each of the five analyzers has
\* reported scores, no scores or unavailable; an analyzer that has reported
\* keeps its report; and a job in analyzing eventually leaves analyzing.
C22_JoinThenLeaves ==
    /\ [][(stage = "analyzing" /\ stage' # "analyzing"
            /\ error' # "SystemError") => AllReturned]_vars
    /\ [](stage \in {"processing", "completed"} => AllReturned)
    /\ [][\A a \in Analyzers :
             analyzer[a] \in {"ok", "empty", "unavailable"}
                 => analyzer'[a] = analyzer[a]]_vars
    /\ (stage = "analyzing" ~> stage # "analyzing")

\* C22 witness: the job got past the join with one analyzer timed out
\* (unavailable), one empty and the others with scores.
C22_Witness ==
    /\ stage = "processing"
    /\ \E a, b \in Analyzers :
           analyzer[a] = "unavailable" /\ analyzer[b] = "empty"
    /\ ProducedScores # {}

\* A polling chain of job j is under way: a request is out, its response or
\* its failure is waiting for pollJobStatus, or the 2 s delay is running.
ChainActive(j) == polls[j].pc \in {"request", "response", "failed", "delay"}

\* pollJobStatus takes up the response of job j.
TakesResponse(j) == polls[j].pc = "response" /\ polls'[j].pc \notin {"response", "failed"}

\* C25: pollJobStatus goes into the 2 s delay, and from there into the next
\* request, exactly when the response it took up is neither completed nor
\* failed; on completed, on failed and on a failed request it sets
\* isProcessing to false and the chain ends for good; a request is issued only
\* by handleSubmit after processVideo resolved or after the delay; and a chain
\* under way eventually ends with isProcessing false.
C25_PollingLoop ==
    /\ [][\A j \in 1..MaxJobs :
             /\ TakesResponse(j) =>
                    IF polls[j].reply.status \in {"completed", "failed"}
                    THEN polls'[j].pc = "ended" /\ ~ isProcessing'
                    ELSE polls'[j].pc = "delay" /\ isProcessing' = isProcessing
             /\ (polls[j].pc = "failed" /\ polls'[j].pc # "failed") =>
                    polls'[j].pc = "ended" /\ ~ isProcessing'
             /\ (polls[j].pc = "delay" /\ polls'[j].pc # "delay") =>
                    polls'[j].pc = "request"
             /\ (polls[j].pc # "request" /\ polls'[j].pc = "request") =>
                    \/ polls[j].pc = "delay"
                    \/ /\ polls[j].pc = "none"
                       /\ \E s \in Slots : submit_pc[s] = "ok" /\ submit_reply[s] = j
                       /\ jobId' = j
             /\ polls[j].pc = "ended" => polls'[j].pc = "ended"]_vars
    /\ \A j \in 1..MaxJobs :
           ChainActive(j) ~> (polls[j].pc = "ended" /\ ~ isProcessing)

\* C25 witness: the chain of the current job has ended on a completed response
\* and isProcessing is false.
C25_Witness ==
    \E j \in 1..MaxJobs :
        /\ polls[j].pc = "ended"
        /\ status.status = "completed"
        /\ jobId = j
        /\ ~ isProcessing

\* handleSubmit is waiting for processVideo or for its own continuation.
SubmitInFlight == \E s \in Slots : submit_pc[s] # "none"

\* A run of handleSubmit gets as far as its processVideo call.
SubmitStarts == \E s \in Slots : submit_pc[s] = "none" /\ submit_pc'[s] = "sent"

\* pollJobStatus runs for job j: after a response or in its catch.
PollHandlerRuns(j) ==
    polls[j].pc \in {"response", "failed"} /\ polls'[j].pc \in {"delay", "ended"}

\* C26: at most one polling chain is under way, it is the chain of the job in
\* jobId, and isProcessing is true while it is (and while a submission is in
\* flight, during which no chain is under way); a submission is started and
\* the state is reset only when no chain is under way and no submission is in
\* flight; so status, clips and error are written by pollJobStatus only for
\* the job in jobId.
C26_OneChain ==
    /\ [](/\ Cardinality({j \in 1..MaxJobs : ChainActive(j)}) <= 1
          /\ \A j \in 1..MaxJobs : ChainActive(j) =>
                 isProcessing /\ jobId = j /\ ~ SubmitInFlight
          /\ SubmitInFlight => isProcessing)
    /\ [][(SubmitStarts \/ (jobId # 0 /\ jobId' = 0))
               => \A j \in 1..MaxJobs : ~ ChainActive(j)]_vars
    /\ [][SubmitStarts => ~ SubmitInFlight]_vars
    /\ [][\A j \in 1..MaxJobs :
             PollHandlerRuns(j) =>
                 /\ jobId = j
                 /\ \A k \in 1..MaxJobs : k # j => ~ ChainActive(k)]_vars

\* C26 witness: the chain of a second job is under way after the chain of the
\* first job ended.
C26_Witness ==
    \E j, k \in 1..MaxJobs :
        /\ j # k
        /\ polls[j].pc = "ended"
        /\ ChainActive(k)
        /\ jobId = k
        /\ isProcessing

\* The polling of the job in jobId has ended and nothing else is under way.
PollingEnded ==
    /\ jobId # 0
    /\ polls[jobId].pc = "ended"
    /\ ~ isProcessing
    /\ ~ SubmitInFlight

\* C27: when polling has ended App shows an outcome: the results view after a
\* completed response, a non-null error after a failed response or a failed
\* request, whatever the clips of the completed response were.
C27_OutcomeShown ==
    PollingEnded =>
        IF status.status = "completed"
        THEN Len(clips) > 0 /\ ~ isProcessing
        ELSE appError # "null"

\* C28: when processVideo rejects, handleSubmit sets error to the failure's
\* message and isProcessing to false, starts no polling and leaves jobId as it
\* was; when it resolves, jobId becomes the returned job id in the step that
\* issues the first status request for it, no other chain is touched, and
\* the chain of a job is started once only.
C28_SubmitOutcome ==
    /\ [][\A s \in Slots :
             (submit_pc[s] = "error" /\ submit_pc'[s] = "none") =>
                 /\ appError' = submit_msg[s]
                 /\ appError' \in {"ValidationError", "RateLimited", "Failed to fetch"}
                 /\ ~ isProcessing'
                 /\ jobId' = jobId
                 /\ polls' = polls]_vars
    /\ [][\A s \in Slots :
             (submit_pc[s] = "ok" /\ submit_pc'[s] = "none") =>
                 /\ jobId' = submit_reply[s]
                 /\ polls[submit_reply[s]].pc = "none"
                 /\ polls'[submit_reply[s]].pc = "request"
                 /\ \A k \in 1..MaxJobs :
                        k # submit_reply[s] => polls'[k] = polls[k]
                 /\ isProcessing']_vars
    /\ [][\A j \in 1..MaxJobs :
             /\ polls[j].pc # "none" => polls'[j].pc # "none"
             /\ (polls[j].pc = "none" /\ polls'[j].pc # "none") =>
                    /\ \E s \in Slots : submit_pc[s] = "ok" /\ submit_reply[s] = j
                    /\ jobId' = j]_vars

\* C28 witness: a submission was rejected after an earlier job had been
\* polled: the error is shown, jobId is still the earlier job's, and no chain
\* was started for another job.
C28_Witness ==
    /\ jobId = 1
    /\ polls[1].pc = "ended"
    /\ polls[2].pc = "none"
    /\ appError \in {"RateLimited", "Failed to fetch"}
    /\ status.status = "queued"
    /\ ~ isProcessing
    /\ ~ SubmitInFlight

\* C28 witness of the other case: processVideo resolved for a second job.
C28_SecondJobStarted ==
    jobId = 2 /\ polls[2].pc = "request" /\ polls[1].pc = "ended" /\ isProcessing

\* The download the button of clip c started is in flight.
InFlight(c) == micro = "button" /\ micro_clip = c

\* C29: while a download started by handleDownload is in flight the button's
\* status is downloading (the button is disabled), and no step taken while it
\* is in flight, a reset timer of an earlier download included, leaves the
\* status at idle; the status leaves downloading only for success or error.
C29_DownloadingWhileInFlight ==
    /\ [](\A c \in 1..MaxClips : InFlight(c) => button_status[c] = "downloading")
    /\ [][\A c \in 1..MaxClips :
             /\ InFlight(c) => button_status'[c] # "idle"
             /\ (button_status[c] = "downloading"
                   /\ button_status'[c] # "downloading")
                     => button_status'[c] \in {"success", "error"}
             /\ (button_status[c] # "downloading"
                   /\ button_status'[c] = "downloading")
                     => micro' = "button" /\ micro_clip' = c]_vars

\* C29 witness: a download is in flight while the reset timer of an earlier
\* download of the same button is still pending.
C29_Witness ==
    \E c \in 1..MaxClips :
        /\ InFlight(c)
        /\ button_timers[c] > 0
        /\ button_status[c] = "downloading"

\* C29, further: the earlier timer does fire after the later download, and
\* resets the button while the later download's own timer is pending.
C29_EarlierTimerFired ==
    \E c \in 1..MaxClips :
        button_status[c] = "idle" /\ button_timers[c] > 0 /\ micro = "none"

\* A run of handleDownloadAll is under way.
RunUnderWay == all_pc \in {"call", "pause"}

\* The first k clips of the list.
FirstClips(k) == [i \in 1..k |-> dl_clips[i]]

\* C30: a run hands the clips to downloadClip one at a time, in list order,
\* each once; progress is 0 at the click, does not decrease during the run
\* and is 100 once the last clip is done; downloading is true exactly while
\* the run is under way, on the path through the catch as well; and a run
\* starts only with downloading false and a non-empty list.
C30_DownloadAllRun ==
    /\ [](/\ downloading <=> RunUnderWay
          /\ micro = "all" <=> all_pc = "call"
          /\ Len(all_log) <= Len(dl_clips)
          /\ all_log = FirstClips(Len(all_log))
          /\ RunUnderWay =>
                 /\ all_pc = "call" =>
                        /\ Len(all_log) = all_i + (IF micro_ok THEN 1 ELSE 0)
                        /\ all_progress[1] * Len(dl_clips) = all_i * 100 * all_progress[2]
                 /\ all_pc = "pause" =>
                        /\ Len(all_log) = all_i + 1
                        /\ all_progress[1] * Len(dl_clips)
                              = (all_i + 1) * 100 * all_progress[2]
          /\ (all_pc = "pause" /\ all_i + 1 = Len(dl_clips)) =>
                 all_progress[1] = 100 * all_progress[2] /\ all_log = dl_clips)
    /\ [][(~ downloading /\ downloading') =>
             /\ Len(dl_clips) > 0
             /\ all_progress' = <<0, 1>>
             /\ Len(all_log') <= 1]_vars
    /\ [][(downloading /\ downloading') =>
             /\ all_progress[1] * all_progress'[2]
                    <= all_progress'[1] * all_progress[2]
             /\ Len(all_log') \in {Len(all_log), Len(all_log) + 1}]_vars
    /\ [][(downloading /\ ~ downloading') =>
             \/ all_log = dl_clips /\ all_progress[1] = 100 * all_progress[2]
             \/ micro = "all" /\ ~ micro_ok]_vars

\* C30 witness: a run over all clips of a list of at least two has ended.
C30_Witness ==
    /\ ~ downloading
    /\ Len(dl_clips) >= 2
    /\ all_log = dl_clips
    /\ all_progress = <<100 * Len(dl_clips), Len(dl_clips)>>
    /\ all_pc = "idle"

\* C30, further: a run ended in the catch after its first clip.
C30_RunFailedReached ==
    /\ ~ downloading
    /\ Len(all_log) = 1
    /\ Len(dl_clips) >= 2
    /\ all_pc = "idle"
    /\ all_i = 1

\* C21: the record of a job is removed only when the job is completed or
\* failed; from the moment the cancellation is signalled the only change of
\* the job is its failure as cancelled, after which the record goes; and
\* nothing about the job changes once its record has been removed.
C21_NoRemovalUnderWorker ==
    /\ [](~ record => stage \in {"completed", "failed"})
    /\ [](cancel = "observed" => stage = "failed" /\ error = "Cancelled")
    /\ [][(record /\ ~ record') =>
             stage \in {"completed", "failed"} /\ stage' = stage]_vars
    /\ [][cancel = "requested" =>
             \/ UNCHANGED jobVars
             \/ (stage' = "failed" /\ error' = "Cancelled" /\ record')]_vars
    /\ [][~ record => UNCHANGED <<jobVars, record>>]_vars

\* C21 witness: a job was deleted while its worker was analyzing; it failed
\* as cancelled and its record has been removed.
C21_Witness ==
    /\ ~ record
    /\ stage = "failed"
    /\ error = "Cancelled"
    /\ trail = <<"queued", "downloading", "analyzing", "failed">>
    /\ \E a \in Analyzers : analyzer[a] = "running"

\* C20: a status read that overlaps the worker's writes returns the job's
\* record as it was after one whole update: the record as the read found
\* it when it began or as it is when the read returns, never a mix of the
\* two (no Completed with progress below 100 or without segments).
C20_AtomicSnapshot ==
    /\ [](snapshot # NoRecord => WholeRecord(snapshot))
    /\ [][(read_pc = "reading" /\ read_pc' = "idle") =>
             snapshot' \in {read_seen, job_record}]_vars

\* C20 witness: a read during which the job went from Processing to
\* Completed; it returned the record of Processing.
C20_Witness ==
    /\ read_pc = "idle"
    /\ read_raced
    /\ snapshot.status = "processing"
    /\ stage = "completed"

(***************************************************************************)
(* Properties of submission.                                               *)
(***************************************************************************)
\* A submission as the API documents it: a valid YouTube URL, a duration of
\* 30/60/90/120/180 and a clip count of 5/10/15.
StatedValid(req) ==
    /\ isValidYouTubeUrl(req.url)
    /\ req.duration \in {30, 60, 90, 120, 180}
    /\ req.clip_count \in {5, 10, 15}

\* C19: validation comes before any job.  In the frontend, a step that sets
\* the error "Please enter a valid YouTube URL" is taken with a URL that
\* isValidYouTubeUrl rejects and changes nothing else (isProcessing, jobId,
\* status, clips, no processVideo call, no job on the server); processVideo
\* is called only with a URL that isValidYouTubeUrl accepts; and while the
\* form holds a rejected URL, with nothing under way, no step changes
\* isProcessing, jobId, status, clips or the processVideo calls.  On the server, a job record is created
\* only in the step that handles a valid submission, one record in Queued,
\* and a submission with a malformed URL or an out-of-range duration or
\* clip count is answered with a ValidationError and creates none.
C19_ValidatedBeforeJob ==
    /\ [][(appError' = "Please enter a valid YouTube URL" /\ appError' # appError)
             => /\ ~ isValidYouTubeUrl(url)
                /\ UNCHANGED <<url, formDuration, clipCount, jobId, status,
                               isProcessing, clips, selectedClip, submitVars,
                               polls, serverVars>>]_vars
    /\ [][\A s \in Slots :
             (submit_pc[s] # "sent" /\ submit_pc'[s] = "sent")
                 => (isValidYouTubeUrl(url) /\ submit_req'[s].url = url)]_vars
    /\ [][(~ isValidYouTubeUrl(url) /\ ~ isProcessing /\ ~ SubmitInFlight)
             => UNCHANGED <<isProcessing, jobId, status, clips, submitVars>>]_vars
    /\ [][Len(server_jobs') # Len(server_jobs)
             => /\ server_jobs' = Append(server_jobs, [status |-> "queued",
                        progress |-> 0, clips |-> <<>>, error |-> "null"])
                /\ \/ \E s \in Slots :
                          /\ submit_pc[s] = "sent" /\ submit_pc'[s] = "ok"
                          /\ StatedValid(submit_req[s])
                   \/ (api_req # NoRequest /\ api_req' = NoRequest
                        /\ StatedValid(api_req))]_vars
    /\ [][(api_req # NoRequest /\ api_req' = NoRequest /\ ~ StatedValid(api_req))
             => (server_jobs' = server_jobs
                 /\ last_verdict' = "ValidationError")]_vars

\* C19 witness: handleSubmit ran on a URL with a 10-character id: the error
\* is set, App is otherwise as mounted and the server holds no job; the
\* server has also turned down another client's malformed submission.
C19_Witness ==
    /\ url = Url("", "https://", "", "youtube.com", "/shorts/", 10)
    /\ appError = "Please enter a valid YouTube URL"
    /\ ~ isProcessing
    /\ jobId = 0
    /\ status = NullStatus
    /\ clips = <<>>
    /\ ~ SubmitInFlight
    /\ server_jobs = <<>>
    /\ last_verdict = "ValidationError"

\* A valid submission of the form does create a job.
C19_JobCreatedReached ==
    /\ jobId = 1
    /\ isProcessing
    /\ Len(server_jobs) >= 1
    /\ polls[1].pc = "request"

====
